---- MODULE Spec2Model ----
(***************************************************************************)
(* A model of the kco operator's monitoring control plane:                 *)
(*   - MonitoringController / TAppMonitor (monitors/controller.py)         *)
(*   - StateManager (monitors/state.py)                                    *)
(*   - EventGenerator (events/generator.py)                                *)
(*   - ActionHandler trigger evaluation, ActionRegistry (actions/)         *)
(*   - RateLimiter (utils/rate_limiter.py)                                 *)
(*                                                                         *)
(* The program runs on one asyncio event loop: a coroutine runs without    *)
(* interruption until it awaits something that really suspends (network    *)
(* I/O, a sleep, a lock that is held, a task that has not finished).  One  *)
(* action of the model is one such uninterrupted segment.  The locks of    *)
(* StateManager, EventGenerator, ActionRegistry and RateLimiter are only   *)
(* ever held across code that does not suspend, so they are never found    *)
(* held and acquiring them is not a suspension point; the controller's     *)
(* lock is held across suspensions and is modelled with its FIFO queue.    *)
(*                                                                         *)
(* Three specifications share the module:                                  *)
(*   Spec      the controller, its supervisors and their poll loops;       *)
(*             wall-clock dependent outcomes (rate-limit verdict, dedup    *)
(*             verdict, timeouts) are resolved nondeterministically;       *)
(*   SpecRate  the token buckets of the rate limiter, with a clock;        *)
(*   SpecEmit  the event generator's deduplication cache, with a clock.    *)
(***************************************************************************)
EXTENDS Integers, Sequences, FiniteSets, TLC

(***************************************************************************)
(* Response data.  A JSON value is a tagged record; a dict is a function   *)
(* from keys to values.  A key is the sequence of dot-free segments of the *)
(* key string (almost always one segment), so that the dotted path string  *)
(* f"{path}.{key}" is the concatenation of sequences and two different     *)
(* nestings that print the same dotted string are the same path.           *)
(***************************************************************************)
Str(s) == [t |-> "str", v |-> s]
Num(n) == [t |-> "int", v |-> n]
\* The float n.0 and the booleans; json.loads yields int, float and bool for
\* the texts 1, 1.0 and true, and json.dumps prints them back as such.
Flt(n) == [t |-> "float", v |-> n]
Bool(b) == [t |-> "bool", v |-> IF b THEN 1 ELSE 0]
Dict(f) == [t |-> "dict", v |-> f]
Null == [t |-> "null", v |-> "null"]
\* A JSON array: a sequence of values.
List(s) == [t |-> "list", v |-> s]

IsDict(x) == x.t = "dict"
IsNumber(x) == x.t \in {"int", "float", "bool"}

\* Python's == on two JSON values of the model: int, float and bool compare
\* by their numeric value (1 == 1.0 == True), dicts by their items.
RECURSIVE PyEq(_, _)
PyEq(a, b) ==
    IF IsNumber(a) /\ IsNumber(b) THEN a.v = b.v
    ELSE IF a.t # b.t THEN FALSE
    ELSE IF a.t = "dict"
         THEN /\ DOMAIN a.v = DOMAIN b.v
              /\ \A k \in DOMAIN a.v : PyEq(a.v[k], b.v[k])
    ELSE IF a.t = "list"
         THEN /\ Len(a.v) = Len(b.v)
              /\ \A n \in 1..Len(a.v) : PyEq(a.v[n], b.v[n])
         ELSE a.v = b.v

K(s) == <<s>>

HealthyData == (K("app") :> Dict(K("health") :> Str("healthy")))
UnhealthyData == (K("app") :> Dict(K("health") :> Str("unhealthy")))

\* The responses the target's state query may return.
Payloads == {HealthyData, UnhealthyData}

(***************************************************************************)
(* StateManager                                                            *)
(***************************************************************************)
NoSnapshot == [data |-> <<>>, checksum |-> <<"none">>]

\* StateSnapshot.create: the checksum is sha256 of the canonical JSON text
\* (sorted keys, no whitespace).  The canonical text determines the tagged
\* tree and the tree determines the text, and sha256 is taken to be
\* collision free, so the checksum is represented by the tree it hashes.
Checksum(data) == <<"sha256", data>>

StateSnapshotCreate(data) == [data |-> data, checksum |-> Checksum(data)]

\* A variant of _find_changed_fields that does not recurse: a key present
\* on both sides is reported when its values are unequal.
_find_changed_fields_flat(old_data, new_data, path) ==
    LET removed == {path \o k : k \in (DOMAIN old_data) \ (DOMAIN new_data)}
        added == {path \o k : k \in (DOMAIN new_data) \ (DOMAIN old_data)}
        both == (DOMAIN old_data) \cap (DOMAIN new_data)
    IN removed \cup added
         \cup {path \o k : k \in {x \in both : ~PyEq(old_data[x], new_data[x])}}

\* StateManager._find_changed_fields
RECURSIVE _find_changed_fields(_, _, _)
_find_changed_fields(old_data, new_data, path) ==
    LET removed == {path \o k : k \in (DOMAIN old_data) \ (DOMAIN new_data)}
        added == {path \o k : k \in (DOMAIN new_data) \ (DOMAIN old_data)}
        both == (DOMAIN old_data) \cap (DOMAIN new_data)
        nested(k) ==
            IF IsDict(old_data[k]) /\ IsDict(new_data[k])
            THEN _find_changed_fields(old_data[k].v, new_data[k].v, path \o k)
            ELSE IF ~PyEq(old_data[k], new_data[k]) THEN {path \o k} ELSE {}
    IN removed \cup added \cup UNION {nested(k) : k \in both}

\* StateChange.is_initial / has_changes
is_initial(sc) == sc.old_snapshot = NoSnapshot
has_changes(sc) == IF is_initial(sc) THEN TRUE ELSE sc.changed_fields # {}

\* A variant of the StateChange that reads no stored snapshot.
StateChangeOfFresh(st, k, new_data) ==
    [key |-> k, old_snapshot |-> NoSnapshot,
     new_snapshot |-> [data |-> new_data, checksum |-> <<"sha256", new_data>>],
     changed_fields |-> {}]

\* The StateChange update_state returns for tenant key k and response data,
\* given the table st.
StateChangeOf(st, k, new_data) ==
    LET old_snapshot == st[k]
        new_snapshot == StateSnapshotCreate(new_data)
        changed_fields ==
            IF old_snapshot # NoSnapshot
               /\ old_snapshot.checksum # new_snapshot.checksum
            THEN _find_changed_fields(old_snapshot.data, new_snapshot.data, <<>>)
            ELSE {}
    IN [key |-> k, old_snapshot |-> old_snapshot,
        new_snapshot |-> new_snapshot, changed_fields |-> changed_fields]

\* Variants of update_state and remove_state that leave the table as it is;
\* the store properties below fail with them.
update_state_dropped(st, k, new_data) == st
remove_state_kept(st, k) == st

\* A variant of update_state that keeps a snapshot already stored.
update_state_first_wins(st, k, new_data) ==
    IF st[k] = NoSnapshot
    THEN [st EXCEPT ![k] = StateSnapshotCreate(new_data)] ELSE st

\* The table after update_state / remove_state.
update_state(st, k, new_data) == [st EXCEPT ![k] = StateSnapshotCreate(new_data)]
remove_state(st, k) == [st EXCEPT ![k] = NoSnapshot]

(***************************************************************************)
(* Trigger evaluation (ActionHandler) and the action registry              *)
(***************************************************************************)
\* ActionHandler._get_nested_value: field_path.split(".") looks every
\* segment up as a key of its own; None is Null.
RECURSIVE _get_nested_value(_, _)
_get_nested_value(value, field_path) ==
    IF field_path = <<>> THEN value
    ELSE IF IsDict(value) /\ K(Head(field_path)) \in DOMAIN value.v
         THEN _get_nested_value(value.v[K(Head(field_path))], Tail(field_path))
         ELSE Null

\* float(x or 0) in greater_than and less_than: a number converts to
\* itself, None, "" and {} to 0 (they are falsy); a dict with items raises
\* TypeError and a text that is no number ValueError (the texts of the
\* model are none), which the handler turns into False.
FloatOk(x) ==
    \/ IsNumber(x)
    \/ x = Null
    \/ x = Str("")
    \/ (IsDict(x) /\ DOMAIN x.v = {})
FloatOf(x) == IF IsNumber(x) THEN x.v ELSE 0

\* A variant of _evaluate_trigger_condition that skips a field that is not
\* in changed_fields for an initial change too.
_evaluate_trigger_changed_only(sc, trigger) ==
    IF trigger.field = <<>> \/ trigger.condition = "" THEN FALSE
    ELSE IF trigger.field \notin sc.changed_fields THEN FALSE
    ELSE LET current_value == _get_nested_value(Dict(sc.new_snapshot.data), trigger.field)
         IN CASE trigger.condition = "equals" -> PyEq(current_value, trigger.value)
              [] trigger.condition = "not_equals" -> ~PyEq(current_value, trigger.value)
              [] trigger.condition = "exists" -> current_value # Null
              [] trigger.condition = "not_exists" -> current_value = Null
              [] OTHER -> FALSE

\* A variant of _evaluate_trigger_condition without the "field not in
\* changed_fields" skip; the no-change property below fails with it.
_evaluate_trigger_always(sc, trigger) ==
    IF trigger.field = <<>> \/ trigger.condition = "" THEN FALSE
    ELSE LET current_value == _get_nested_value(Dict(sc.new_snapshot.data), trigger.field)
         IN CASE trigger.condition = "equals" -> PyEq(current_value, trigger.value)
              [] trigger.condition = "not_equals" -> ~PyEq(current_value, trigger.value)
              [] trigger.condition = "greater_than" ->
                   /\ FloatOk(current_value) /\ FloatOk(trigger.value)
                   /\ FloatOf(current_value) > FloatOf(trigger.value)
              [] trigger.condition = "less_than" ->
                   /\ FloatOk(current_value) /\ FloatOk(trigger.value)
                   /\ FloatOf(current_value) < FloatOf(trigger.value)
              [] trigger.condition = "exists" -> current_value # Null
              [] trigger.condition = "not_exists" -> current_value = Null
              [] OTHER -> FALSE

\* ActionHandler._evaluate_trigger_condition; of its seven conditions
\* "contains", a substring test on str() texts, is not modelled.
_evaluate_trigger_condition(sc, trigger) ==
    IF trigger.field = <<>> \/ trigger.condition = "" THEN FALSE
    ELSE IF ~is_initial(sc) /\ trigger.field \notin sc.changed_fields THEN FALSE
    ELSE LET current_value == _get_nested_value(Dict(sc.new_snapshot.data), trigger.field)
         IN CASE trigger.condition = "equals" -> PyEq(current_value, trigger.value)
              [] trigger.condition = "not_equals" -> ~PyEq(current_value, trigger.value)
              [] trigger.condition = "greater_than" ->
                   /\ FloatOk(current_value) /\ FloatOk(trigger.value)
                   /\ FloatOf(current_value) > FloatOf(trigger.value)
              [] trigger.condition = "less_than" ->
                   /\ FloatOk(current_value) /\ FloatOk(trigger.value)
                   /\ FloatOf(current_value) < FloatOf(trigger.value)
              [] trigger.condition = "exists" -> current_value # Null
              [] trigger.condition = "not_exists" -> current_value = Null
              [] OTHER -> FALSE

\* The names registered in the global ActionRegistry (the built-in handlers).
Handlers == {"restart_pod", "scale_deployment", "patch_resource",
             "exec_command", "webhook"}

\* What awaiting handler.can_handle(context) may do: return True or False,
\* raise an error, raise a TimeoutError of its own.
CanHandleOutcomes == {"true", "false", "raises", "timeout_error"}

\* What awaiting wait_for(handler.execute(context), timeout) may do: the
\* handler returns an ActionResult of some status, returns something that is
\* no ActionResult, raises an error, raises a TimeoutError of its own, or
\* is still running when the timer fires (wait_for cancels it and raises
\* TimeoutError).
HandlerStatuses == {"success", "failed", "skipped", "timeout"}
ExecuteOutcomes == HandlerStatuses \cup {"no_result", "raises", "timeout_error", "overrun"}

\* ActionRegistry.execute_action up to handler.execute: the status it returns
\* with, or "running" when it goes on to execute the handler.
execute_action_entry(action_name, canh) ==
    IF action_name \notin Handlers THEN "failed"
    ELSE CASE canh = "false" -> "skipped"
           [] canh = "timeout_error" -> "timeout"
           [] canh = "raises" -> "failed"
           [] OTHER -> "running"

\* ActionRegistry.execute_action from the end of handler.execute: "except
\* asyncio.TimeoutError" takes the timer's TimeoutError and the handler's
\* own alike, "except Exception" the rest (setting execution_time_seconds
\* on something that is no ActionResult raises AttributeError).
execute_action_exit(outcome) ==
    CASE outcome \in HandlerStatuses -> outcome
      [] outcome \in {"overrun", "timeout_error"} -> "timeout"
      [] OTHER -> "failed"


(***************************************************************************)
(* TargetApp specs and TAppConfig                                          *)
(***************************************************************************)
\* Tenant keys, f"{namespace}/{name}".
Keys == {"ns/a"}
NoKey == "none"

HealthField == <<"app", "health">>

\* The spec dicts the custom-resource handlers pass to the controller:
\*   "direct"  an absolute graphqlEndpoint, one restart_pod action;
\*   "pods"    a relative graphqlEndpoint (pod discovery), three actions, the
\*             second one naming a handler that is not registered;
\*   "badint"  pollingInterval below the validated range.
SpecNames == {"direct", "pods", "badint"}
NoSpec == "none"

TAppSpec(name) ==
    CASE name = "direct" ->
           [graphqlEndpoint |-> "http://target/graphql", pollingInterval |-> 5,
            timeout |-> 10, maxRetries |-> 3,
            actions |-> <<[trigger |-> [field |-> HealthField, condition |-> "equals",
                                        value |-> Str("unhealthy")],
                           action |-> "restart_pod"]>>]
      [] name = "pods" ->
           [graphqlEndpoint |-> "/graphql", pollingInterval |-> 60,
            timeout |-> 10, maxRetries |-> 3,
            actions |-> <<[trigger |-> [field |-> HealthField, condition |-> "not_equals",
                                        value |-> Str("down")],
                           action |-> "webhook"],
                          [trigger |-> [field |-> HealthField, condition |-> "exists",
                                        value |-> Null],
                           action |-> "page_oncall"],
                          [trigger |-> [field |-> <<"app", "missing">>,
                                        condition |-> "not_exists", value |-> Null],
                           action |-> "exec_command"]>>]
      [] OTHER ->
           [graphqlEndpoint |-> "/graphql", pollingInterval |-> 4,
            timeout |-> 10, maxRetries |-> 3, actions |-> <<>>]

\* A variant of the validation that accepts every spec.
TAppConfigValidAlways(spec) == TRUE

\* TAppConfig.model_validate: the Field(ge=, le=) ranges.
TAppConfigValid(spec) ==
    /\ spec.pollingInterval >= 5 /\ spec.pollingInterval <= 3600
    /\ spec.timeout >= 1 /\ spec.timeout <= 60
    /\ spec.maxRetries >= 0 /\ spec.maxRetries <= 10

\* graphql_endpoint.startswith(("http://", "https://"))
IsDirectUrl(spec) == spec.graphqlEndpoint = "http://target/graphql"

(***************************************************************************)
(* State                                                                   *)
(***************************************************************************)
\* Slots for TAppMonitor objects that are alive at the same time.
MaxMonitors == 2
MonitorIds == 1..MaxMonitors

\* Custom-resource handler invocations that may be in flight at once.
Callers == {"h1", "h2"}

VARIABLES
    monitors,       \* MonitoringController._monitors, in insertion order:
                    \*   a sequence of [key, mon]
    sup,            \* the TAppMonitor objects, by slot
    calls,          \* the controller calls in flight, by caller; result and
                    \*   nstopped (the monitors a shutdown has stopped) are
                    \*   history of the caller's latest call
    ctl_lock,       \* MonitoringController._lock: [holder, waiters]
    cleanup_task,   \* MonitoringController._cleanup_task: running/cancelling/done
    states,         \* StateManager._states
    quiet,          \* history, per key: "stopped" or "polled" (the stopped
                    \*   Supervisor had a snapshot) once stop_monitoring has
                    \*   returned, "no" or "restarted" (after "polled") once a
                    \*   Supervisor has been created for the key since
    now,            \* the clock (SpecRate, SpecEmit), seconds
    requests_per_minute,  \* RateLimiter.requests_per_minute (SpecRate)
    buckets,        \* RateLimiter.buckets (SpecRate)
    acq,            \* the acquire calls in flight (SpecRate)
    win,            \* history: an observation window over acquire (SpecRate)
    emit,           \* the emit attempts in flight, by task (SpecEmit)
    recent_events,  \* EventGenerator._recent_events (SpecEmit)
    cluster,        \* history: the emit attempts and what they created (SpecEmit)
    ret,            \* what the latest StateManager call returned (SpecStore)
    written,        \* history, per key: the data of the latest update_state
                    \*   and the number of them since the key was last
                    \*   absent (SpecStore)
    reg,            \* the execute_action calls, by caller: the one in flight
                    \*   or what the latest one was given and returned
                    \*   (SpecRegistry)
    gq,             \* a GraphQLMonitor.query call: its position, the attempts
                    \*   made and the back-off sleeps taken (SpecQuery)
    trig            \* a trigger evaluation: the StateChange and trigger given
                    \*   and the verdict returned (SpecTrigger)

ctlVars == <<monitors, sup, calls, ctl_lock, cleanup_task, states, quiet>>
rateVars == <<requests_per_minute, buckets, acq, win>>
emitVars == <<emit, recent_events, cluster>>
storeVars == <<ret, written>>
regVars == <<reg>>
unitVars == <<gq, trig>>
vars == <<ctlVars, now, rateVars, emitVars, storeVars, regVars, unitVars>>

\* A free slot.  monitor_task is the position of the loop task:
\*   none      no task (self._monitor_task is None)
\*   new       created, not yet run
\*   health    suspended in graphql_monitor.health_check()
\*   rlwait    suspended in the rate limiter's asyncio.sleep(wait_time)
\*   query     suspended in graphql_monitor.query(state_query)
\*   emit      suspended in k8s_client.create_event(...)
\*   exec      suspended in handler.execute(context)
\*   sleep     suspended in wait_for(stop_event.wait(), polling_interval)
\*   errsleep  the same, after an exception in the cycle
\*   done      finished
\* nsucc counts the successful state queries of this object (0, 1, 2 = many),
\* last is the outcome of its latest cycle, disp lists the configured
\* actions (by position) that the latest successful cycle has passed to
\* ActionRegistry.execute_action, evfail tells that a create_event of the
\* cycle under way has failed, steps lists the calls the latest cycle has
\* made so far (health, acquire, query, update, emit for the generator,
\* dispatch for _process_actions), execd lists the actions whose
\* handler.execute the cycle has called; all six are history.  sleep_timeout is the
\* timeout of the wait_for the loop is suspended in, 0 otherwise.
NoMonitor ==
    [key |-> NoKey, config |-> NoSpec, graphql_monitor |-> FALSE,
     transport |-> FALSE, monitor_task |-> "none", stop_event |-> FALSE,
     cancelled |-> FALSE, nsucc |-> 0, sc |-> <<>>, todo |-> <<>>,
     last |-> "none", disp |-> <<>>, evfail |-> FALSE, steps |-> <<>>,
     sleep_timeout |-> 0, execd |-> <<>>]

IdleCall ==
    [op |-> "idle", phase |-> "idle", key |-> NoKey, spec |-> NoSpec,
     pc |-> "idle", mon |-> 0, rest |-> <<>>, overlap |-> FALSE,
     result |-> "none", nstopped |-> 0]

LiveTask(s) == s.monitor_task \notin {"none", "done"}

\* Variants that find no key registered and that pop nothing; the
\* registration properties below fail with them.
KeyNeverRegistered(m, k) == FALSE
PopKeyKept(m, k) == m

\* monitor_key in self._monitors
KeyRegistered(m, k) == \E n \in 1..Len(m) : m[n].key = k
MonitorOf(m, k) == (CHOOSE n \in 1..Len(m) : m[n].key = k)
Registered(m, i) == \E n \in 1..Len(m) : m[n].mon = i

\* A variant of the pop that empties the map.
PopKeyAll(m, k) == <<>>

\* self._monitors.pop(monitor_key, None)
PopKey(m, k) == SelectSeq(m, LAMBDA e : e.key # k)

\* self._monitors[monitor_key] = monitor
PutKey(m, k, i) ==
    IF KeyRegistered(m, k)
    THEN [n \in 1..Len(m) |-> IF m[n].key = k THEN [key |-> k, mon |-> i] ELSE m[n]]
    ELSE Append(m, [key |-> k, mon |-> i])

FreeSlots(sf) == {i \in MonitorIds : sf[i] = NoMonitor}
NewSlot(sf) == CHOOSE i \in FreeSlots(sf) : \A j \in FreeSlots(sf) : i <= j

\* A stopped object nothing refers to any more is garbage; its slot is free
\* again once its task is gone.
Reclaim(s) == IF LiveTask(s) THEN s ELSE NoMonitor

\* A variant of acquire() that takes the lock whoever holds it.
LockAcquireUnguarded(l, h) == [l EXCEPT !.holder = h]

\* asyncio.Lock: acquire() takes the lock at once only when it is free and
\* nobody is queued, otherwise the caller queues; release() hands the lock to
\* the first waiter.
LockFree(l) == l.holder = "none" /\ l.waiters = <<>>
LockAcquire(l, h) ==
    IF LockFree(l) THEN [l EXCEPT !.holder = h]
    ELSE [l EXCEPT !.waiters = Append(@, h)]
LockRelease(l) ==
    IF l.waiters = <<>> THEN [l EXCEPT !.holder = "none"]
    ELSE [holder |-> Head(l.waiters), waiters |-> Tail(l.waiters)]


(***************************************************************************)
(* EventGenerator: the events one generate_state_change_event attempts     *)
(***************************************************************************)
\* The keywords of the generator's lists that a string of the model's
\* vocabulary contains as a substring ("warning in field_lower").  All the
\* strings of the model are lower case already.
KeywordsIn(s) ==
    CASE s = "health" -> {"health"}
      [] s = "healthy" -> {"health"}
      [] s = "unhealthy" -> {"health", "unhealthy"}
      [] s = "healthcheck" -> {"health"}
      [] s = "status" -> {"status"}
      [] s = "down" -> {"down"}
      [] s = "error" -> {"error"}
      [] s = "errors" -> {"error", "errors"}
      [] s = "failed" -> {"failed"}
      [] OTHER -> {}

warning_fields == {"health", "status", "error", "errors", "failed", "failure"}
bad_values == {"error", "failed", "unhealthy", "down"}
problematic_keywords == {"error", "failed", "failure", "unhealthy", "down",
                         "critical", "fatal", "exception", "timeout"}

\* The reason of the per-field event of a critical leaf name, "" for others.
CriticalReason(leaf) ==
    CASE leaf = "health" -> "HealthStatusChanged"
      [] leaf = "status" -> "StatusChanged"
      [] leaf = "error" -> "ErrorStateChanged"
      [] leaf = "errors" -> "ErrorsDetected"
      [] OTHER -> ""

\* str(value), as far as the generator looks into it.
PyStr(value) ==
    CASE value.t = "str" -> value.v
      [] value.t = "int" -> ToString(value.v)
      [] value.t = "float" -> ToString(value.v) \o ".0"
      [] value.t = "bool" -> (IF value.v = 1 THEN "True" ELSE "False")
      [] OTHER -> "{...}"

\* EventGenerator._get_field_value
RECURSIVE _get_field_value(_, _)
_get_field_value(value, field_path) ==
    IF field_path = <<>>
    THEN (IF value.t = "null" THEN "null" ELSE PyStr(value))
    ELSE IF IsDict(value) /\ K(Head(field_path)) \in DOMAIN value.v
         THEN _get_field_value(value.v[K(Head(field_path))], Tail(field_path))
         ELSE "null"

\* EventGenerator._determine_event_type
_determine_event_type(changed_fields, sc) ==
    IF \E field \in changed_fields :
          /\ \E n \in 1..Len(field) : KeywordsIn(field[n]) \cap warning_fields # {}
          /\ KeywordsIn(_get_field_value(Dict(sc.new_snapshot.data), field))
                \cap bad_values # {}
    THEN "Warning" ELSE "Normal"

\* EventGenerator._is_problematic_value
_is_problematic_value(value) == KeywordsIn(value) \cap problematic_keywords # {}

\* The enumerations of a set: Python leaves the iteration order of a set open.
Orders(S) ==
    {o \in [1..Cardinality(S) -> S] : \A a, b \in 1..Cardinality(S) : o[a] = o[b] => a = b}

Take5(o) == SubSeq(o, 1, IF Len(o) < 5 THEN Len(o) ELSE 5)

\* _get_event_key: f"{namespace}/{tapp_name}/{reason}/{hash(message)}"; the
\* hash is taken to tell the model's messages apart.
_get_event_key(k, reason, message) == <<k, reason, message>>

\* An event: the deduplication key is (tenant key, reason, hash(message));
\* hash is taken to be collision free and the message stands for its hash.
Event(k, reason, message, type) ==
    [key |-> _get_event_key(k, reason, message), reason |-> reason, type |-> type]

NoEvent == [key |-> <<>>, reason |-> "", type |-> ""]

\* _generate_initial_state_event
InitialEvent(sc) ==
    Event(sc.key, "InitialStateDetected", <<"initial state detected">>, "Normal")

\* The summary event of _generate_change_events, the changed fields listed
\* in order o.
SummaryEvent(sc, o) ==
    IF Len(o) = 1
    THEN Event(sc.key, "StateFieldChanged", <<"field changed", o[1]>>,
               _determine_event_type(sc.changed_fields, sc))
    ELSE Event(sc.key, "StateChanged",
               <<"multiple fields changed", Take5(o),
                 IF Len(o) > 5 THEN Len(o) - 5 ELSE 0>>,
               _determine_event_type(sc.changed_fields, sc))

\* A variant of _generate_specific_field_events that attempts no event.
SpecificEventsNone(sc, o) == <<>>

\* _generate_specific_field_events, the changed fields visited in order o.
RECURSIVE SpecificEvents(_, _)
SpecificEvents(sc, o) ==
    IF o = <<>> THEN <<>>
    ELSE LET field == Head(o)
             reason == CriticalReason(field[Len(field)])
             old_value == _get_field_value(Dict(sc.old_snapshot.data), field)
             new_value == _get_field_value(Dict(sc.new_snapshot.data), field)
             this == IF reason = "" THEN <<>>
                     ELSE <<Event(sc.key, reason,
                                  <<"changed from to", field, old_value, new_value>>,
                                  IF _is_problematic_value(new_value)
                                  THEN "Warning" ELSE "Normal")>>
         IN this \o SpecificEvents(sc, Tail(o))

\* generate_state_change_event: the events attempted, in order.
EventAttempts(sc, o) ==
    IF is_initial(sc) THEN <<InitialEvent(sc)>>
    ELSE IF has_changes(sc) THEN <<SummaryEvent(sc, o)>> \o SpecificEvents(sc, o)
    ELSE <<>>

(***************************************************************************)
(* TAppMonitor: the poll loop                                              *)
(***************************************************************************)
\* What is left of a cycle after update_state: the events to attempt, then
\* the configured actions.
EventItem(e) == [kind |-> "event", ev |-> e, idx |-> 0]
ActionItem(n) == [kind |-> "action", ev |-> NoEvent, idx |-> n]

CycleItems(sc, actions, o) ==
    (IF has_changes(sc) \/ is_initial(sc)
     THEN [n \in 1..Len(EventAttempts(sc, o)) |-> EventItem(EventAttempts(sc, o)[n])]
     ELSE <<>>)
    \o [n \in 1..Len(actions) |-> ActionItem(n)]

\* handler.can_handle(context): every built-in handler returns
\* _evaluate_trigger_condition(state_change, trigger_config).
can_handle(sc, action_config) == _evaluate_trigger_condition(sc, action_config.trigger)

\* The verdicts of _should_create_event in Spec, where the cache and the
\* clock are not followed (SpecEmit follows them).
ShouldCreateVerdicts == {TRUE, FALSE}

\* A variant of the loop of _process_actions that gives up the list at the
\* first action whose status is not success.
ActionsLeftAbort(todo, status) == IF status = "success" THEN Tail(todo) ELSE <<>>

\* _process_actions, after execute_action has returned for the action at
\* the head of todo: the status goes to the counter and the log, and the
\* for loop takes the next action (an exception would be caught inside the
\* loop body to the same effect).
ActionsLeft(todo, status) == Tail(todo)

\* A variant of the generator's try/except that lets a failed create_event
\* raise.
create_event_checked(created) == created

\* generate_state_change_event around create_event: "except Exception" logs
\* the failure, so the generator goes on whether the event was created or
\* not.
create_event_swallowed(created) == TRUE

\* Runs the rest of the cycle up to its next suspension: an event that is
\* not suppressed suspends in create_event; for an action the context is
\* built and execute_action called (recorded in disp), which returns at
\* once for an unknown handler (failed) and for can_handle false (skipped)
\* and suspends in handler.execute otherwise; with nothing left the loop
\* suspends in its interval sleep.
RECURSIVE Continue(_, _, _, _)
Continue(sc, actions, todo, disp) ==
    IF todo = <<>> THEN {[monitor_task |-> "sleep", todo |-> <<>>, disp |-> disp]}
    ELSE IF Head(todo).kind = "event"
         THEN (IF TRUE \in ShouldCreateVerdicts
               THEN {[monitor_task |-> "emit", todo |-> todo, disp |-> disp]} ELSE {})
              \cup (IF FALSE \in ShouldCreateVerdicts
                    THEN Continue(sc, actions, Tail(todo), disp) ELSE {})
         ELSE LET action_config == actions[Head(todo).idx]
                  canh == IF can_handle(sc, action_config) THEN "true" ELSE "false"
                  status == execute_action_entry(action_config.action, canh)
                  disp2 == Append(disp, Head(todo).idx)
              IN IF status = "running"
                 THEN {[monitor_task |-> "exec", todo |-> todo, disp |-> disp2]}
                 ELSE Continue(sc, actions, ActionsLeft(todo, status), disp2)

\* The outcome recorded for a finished cycle.
CycleOutcome(sc) ==
    IF is_initial(sc) THEN "initial" ELSE IF has_changes(sc) THEN "changed" ELSE "same"

\* The monitor after the cycle went on to r (an element of Continue).
Proceed(s, r) ==
    LET steps == IF s.disp = <<>> /\ r.disp # <<>>
                 THEN Append(s.steps, "dispatch") ELSE s.steps
        execd == IF r.monitor_task = "exec"
                 THEN Append(s.execd, r.disp[Len(r.disp)]) ELSE s.execd
    IN IF r.monitor_task = "sleep"
       THEN [s EXCEPT !.monitor_task = "sleep", !.todo = <<>>, !.sc = <<>>,
                      !.last = CycleOutcome(s.sc), !.disp = r.disp,
                      !.evfail = FALSE, !.steps = steps,
                      !.sleep_timeout = TAppSpec(s.config).pollingInterval]
       ELSE [s EXCEPT !.monitor_task = r.monitor_task, !.todo = r.todo,
                      !.disp = r.disp, !.steps = steps, !.execd = execd]

\* A variant of the loop's "except Exception" that ends the task.
CycleRaisedEnds(s) ==
    [s EXCEPT !.monitor_task = "done", !.last = "error", !.todo = <<>>,
              !.sc = <<>>, !.evfail = FALSE]

\* min(30, self.config.polling_interval)
error_wait(polling_interval) == IF 30 < polling_interval THEN 30 ELSE polling_interval

\* An exception leaves _poll_and_process: the loop's "except Exception"
\* counts the poll as error and sleeps min(30, polling_interval).
CycleRaised(s) ==
    [s EXCEPT !.monitor_task = "errsleep", !.last = "error", !.todo = <<>>,
              !.sc = <<>>, !.evfail = FALSE, !.execd = <<>>,
              !.sleep_timeout = error_wait(TAppSpec(s.config).pollingInterval)]

Runnable(i) == LiveTask(sup[i]) /\ ~sup[i].cancelled

\* _monitoring_loop, first run of the task: the loop head, then health_check,
\* which builds the client (_ensure_client) and suspends in the request.
LoopFirstRun(i) ==
    /\ sup[i].monitor_task = "new" /\ ~sup[i].cancelled
    /\ sup' = [sup EXCEPT ![i] =
                 IF sup[i].stop_event THEN [@ EXCEPT !.monitor_task = "done"]
                 ELSE [@ EXCEPT !.monitor_task = "health", !.transport = TRUE,
                                !.steps = <<"health">>]]
    /\ UNCHANGED <<monitors, calls, ctl_lock, cleanup_task, states, quiet>>
    /\ UNCHANGED <<now, rateVars, emitVars, storeVars, regVars, unitVars>>

\* A variant of the loop that sends the state query whatever the health
\* check returned and without asking the rate limiter.
HealthDoneUngated(i, r) ==
    /\ sup[i].monitor_task = "health" /\ ~sup[i].cancelled
    /\ sup' = [sup EXCEPT ![i] = [@ EXCEPT !.monitor_task = "query",
                                             !.steps = Append(@, "query")]]
    /\ UNCHANGED <<monitors, calls, ctl_lock, cleanup_task, states, quiet>>
    /\ UNCHANGED <<now, rateVars, emitVars, storeVars, regVars, unitVars>>

\* health_check returned.  False: health_check_failed, interval sleep.
\* True: _poll_and_process asks the rate limiter, which grants at once
\* (the state query is sent), sleeps for the computed wait, or denies
\* (rate_limited, interval sleep).
HealthDone(i, r) ==
    /\ sup[i].monitor_task = "health" /\ ~sup[i].cancelled
    /\ sup' = [sup EXCEPT ![i] =
                 CASE r = "unhealthy" ->
                        [@ EXCEPT !.monitor_task = "sleep", !.last = "health_check_failed",
                                  !.sleep_timeout = TAppSpec(sup[i].config).pollingInterval]
                   [] r = "granted" ->
                        [@ EXCEPT !.monitor_task = "query",
                                  !.steps = @ \o <<"acquire", "query">>]
                   [] r = "wait" ->
                        [@ EXCEPT !.monitor_task = "rlwait",
                                  !.steps = Append(@, "acquire")]
                   [] OTHER ->
                        [@ EXCEPT !.monitor_task = "sleep", !.last = "rate_limited",
                                  !.steps = Append(@, "acquire"),
                                  !.sleep_timeout = TAppSpec(sup[i].config).pollingInterval]]
    /\ UNCHANGED <<monitors, calls, ctl_lock, cleanup_task, states, quiet>>
    /\ UNCHANGED <<now, rateVars, emitVars, storeVars, regVars, unitVars>>

\* The rate limiter's sleep is over and it tries once more.
RateWaitDone(i, granted) ==
    /\ sup[i].monitor_task = "rlwait" /\ ~sup[i].cancelled
    /\ sup' = [sup EXCEPT ![i] =
                 IF granted
                 THEN [@ EXCEPT !.monitor_task = "query", !.steps = Append(@, "query")]
                 ELSE [@ EXCEPT !.monitor_task = "sleep", !.last = "rate_limited",
                                !.sleep_timeout = TAppSpec(sup[i].config).pollingInterval]]
    /\ UNCHANGED <<monitors, calls, ctl_lock, cleanup_task, states, quiet>>
    /\ UNCHANGED <<now, rateVars, emitVars, storeVars, regVars, unitVars>>

\* The state query returned data: update_state, then the events and the
\* actions up to the next suspension.
QueryDone(i, data) ==
    /\ sup[i].monitor_task = "query" /\ ~sup[i].cancelled
    /\ LET k == sup[i].key
           sc == StateChangeOf(states, k, data)
           actions == TAppSpec(sup[i].config).actions
           s1 == [sup[i] EXCEPT !.sc = sc, !.disp = <<>>, !.execd = <<>>,
                                !.evfail = FALSE,
                                !.nsucc = IF @ < 2 THEN @ + 1 ELSE 2,
                                !.steps = @ \o (IF has_changes(sc) \/ is_initial(sc)
                                                THEN <<"update", "emit">>
                                                ELSE <<"update">>)]
       IN /\ states' = update_state(states, k, data)
          /\ \E o \in Orders(sc.changed_fields) :
               \E r \in Continue(sc, actions, CycleItems(sc, actions, o), <<>>) :
                 sup' = [sup EXCEPT ![i] = Proceed(s1, r)]
    /\ UNCHANGED <<monitors, calls, ctl_lock, cleanup_task, quiet>>
    /\ UNCHANGED <<now, rateVars, emitVars, storeVars, regVars, unitVars>>

\* A variant of the failed query that drops the tenant's stored snapshot.
QueryFailedDrops(i) ==
    /\ sup[i].monitor_task = "query" /\ ~sup[i].cancelled
    /\ sup' = [sup EXCEPT ![i] = CycleRaised(sup[i])]
    /\ states' = [states EXCEPT ![sup[i].key] = NoSnapshot]
    /\ UNCHANGED <<monitors, calls, ctl_lock, cleanup_task, quiet>>
    /\ UNCHANGED <<now, rateVars, emitVars, storeVars, regVars, unitVars>>

\* The state query raised (retries exhausted, or a logical error): the
\* loop's except branch counts an error and sleeps min(30, interval).
QueryFailed(i) ==
    /\ sup[i].monitor_task = "query" /\ ~sup[i].cancelled
    /\ sup' = [sup EXCEPT ![i] = CycleRaised(sup[i])]
    /\ UNCHANGED <<monitors, calls, ctl_lock, cleanup_task, states, quiet>>
    /\ UNCHANGED <<now, rateVars, emitVars, storeVars, regVars, unitVars>>

\* create_event returned (created) or raised (not created); the generator
\* goes on either way and the cycle continues with the items after this
\* event.
EmitDone(i, created) ==
    /\ sup[i].monitor_task = "emit" /\ ~sup[i].cancelled
    /\ IF create_event_swallowed(created)
       THEN LET s1 == [sup[i] EXCEPT !.evfail = @ \/ ~created]
            IN \E r \in Continue(s1.sc, TAppSpec(s1.config).actions,
                                 Tail(s1.todo), s1.disp) :
                 sup' = [sup EXCEPT ![i] = Proceed(s1, r)]
       ELSE sup' = [sup EXCEPT ![i] = CycleRaised(sup[i])]
    /\ UNCHANGED <<monitors, calls, ctl_lock, cleanup_task, states, quiet>>
    /\ UNCHANGED <<now, rateVars, emitVars, storeVars, regVars, unitVars>>

\* handler.execute returned, raised or timed out; the registry turns each
\* into an ActionResult and the cycle goes on with the next action.
ExecDone(i, outcome) ==
    /\ sup[i].monitor_task = "exec" /\ ~sup[i].cancelled
    /\ \E r \in Continue(sup[i].sc, TAppSpec(sup[i].config).actions,
                          ActionsLeft(sup[i].todo, execute_action_exit(outcome)),
                          sup[i].disp) :
         sup' = [sup EXCEPT ![i] = Proceed(sup[i], r)]
    /\ UNCHANGED <<monitors, calls, ctl_lock, cleanup_task, states, quiet>>
    /\ UNCHANGED <<now, rateVars, emitVars, storeVars, regVars, unitVars>>

\* wait_for(stop_event.wait(), timeout) is over: by the event (break) or by
\* the timeout (continue: loop head, next health_check).
SleepDone(i) ==
    /\ sup[i].monitor_task \in {"sleep", "errsleep"} /\ ~sup[i].cancelled
    /\ sup' = [sup EXCEPT ![i] =
                 IF sup[i].stop_event
                 THEN [@ EXCEPT !.monitor_task = "done", !.sleep_timeout = 0]
                 ELSE [@ EXCEPT !.monitor_task = "health", !.steps = <<"health">>,
                                !.sleep_timeout = 0, !.execd = <<>>]]
    /\ UNCHANGED <<monitors, calls, ctl_lock, cleanup_task, states, quiet>>
    /\ UNCHANGED <<now, rateVars, emitVars, storeVars, regVars, unitVars>>

\* A variant of the loop task that catches the CancelledError and goes on
\* with what it was suspended in.
TaskCancelledSwallowed(i) ==
    /\ LiveTask(sup[i]) /\ sup[i].cancelled
    /\ sup' = [sup EXCEPT ![i] = [@ EXCEPT !.cancelled = FALSE]]
    /\ UNCHANGED <<monitors, calls, ctl_lock, cleanup_task, states, quiet>>
    /\ UNCHANGED <<now, rateVars, emitVars, storeVars, regVars, unitVars>>

\* task.cancel(): CancelledError is raised at the await the task is
\* suspended in; nothing in the loop catches it and the task ends.
TaskCancelled(i) ==
    /\ LiveTask(sup[i]) /\ sup[i].cancelled
    /\ sup' = [sup EXCEPT ![i] = [@ EXCEPT !.monitor_task = "done", !.sc = <<>>,
                                             !.todo = <<>>, !.disp = <<>>,
                                             !.execd = <<>>,
                                             !.evfail = FALSE, !.steps = <<>>,
                                             !.sleep_timeout = 0]]
    /\ UNCHANGED <<monitors, calls, ctl_lock, cleanup_task, states, quiet>>
    /\ UNCHANGED <<now, rateVars, emitVars, storeVars, regVars, unitVars>>


(***************************************************************************)
(* TAppMonitor.stop and the MonitoringController                           *)
(***************************************************************************)
\* A variant of the test in stop() that finds no task to cancel and await.
NeedsJoinNever(s) == FALSE

\* "if self._monitor_task:" in stop(): there is a task to cancel and await.
NeedsJoin(s) == s.monitor_task # "none"

\* "await self._monitor_task" returns once the task has finished.
TaskJoined(s) == s.monitor_task = "done"

\* A variant of stop() that sets the stop event and cancels nothing.
StopSignalledNoCancel(s) == [s EXCEPT !.stop_event = TRUE]

\* stop() up to its first suspension: the stop event is set and the task,
\* if any, is cancelled.
StopSignalled(s) ==
    IF NeedsJoin(s) THEN [s EXCEPT !.stop_event = TRUE, !.cancelled = TRUE]
    ELSE [s EXCEPT !.stop_event = TRUE]

\* The end of stop(): graphql_monitor = None, after close().
StopFinished(s) == [s EXCEPT !.graphql_monitor = FALSE, !.transport = FALSE]

\* History: an update_monitoring call records whether another call for its
\* key is in flight at some time during it.
MarkOverlap(cf, h, k) ==
    [x \in Callers |->
       IF x # h /\ cf[x].op = "update" /\ cf[x].key = k
       THEN [cf[x] EXCEPT !.overlap = TRUE] ELSE cf[x]]
Overlaps(cf, h, k) == \E x \in Callers : x # h /\ cf[x].op # "idle" /\ cf[x].key = k

\* A handler calls start_monitoring(k, spec): "async with self._lock".
CallStart(h, k, sp) ==
    /\ calls[h].pc = "idle"
    /\ calls' = [MarkOverlap(calls, h, k) EXCEPT ![h] =
                   [IdleCall EXCEPT !.op = "start", !.phase = "start", !.key = k,
                                    !.spec = sp, !.pc = "lock"]]
    /\ ctl_lock' = LockAcquire(ctl_lock, h)
    /\ UNCHANGED <<monitors, sup, cleanup_task, states, quiet>>
    /\ UNCHANGED <<now, rateVars, emitVars, storeVars, regVars, unitVars>>

\* A handler calls stop_monitoring(k).
CallStop(h, k) ==
    /\ calls[h].pc = "idle"
    /\ calls' = [MarkOverlap(calls, h, k) EXCEPT ![h] =
                   [IdleCall EXCEPT !.op = "stop", !.phase = "stop", !.key = k,
                                    !.pc = "lock"]]
    /\ ctl_lock' = LockAcquire(ctl_lock, h)
    /\ UNCHANGED <<monitors, sup, cleanup_task, states, quiet>>
    /\ UNCHANGED <<now, rateVars, emitVars, storeVars, regVars, unitVars>>

\* A handler calls update_monitoring(k, spec), which begins with
\* stop_monitoring(k).
CallUpdate(h, k, sp) ==
    /\ calls[h].pc = "idle"
    /\ calls' = [MarkOverlap(calls, h, k) EXCEPT ![h] =
                   [IdleCall EXCEPT !.op = "update", !.phase = "stop", !.key = k,
                                    !.spec = sp, !.pc = "lock",
                                    !.overlap = Overlaps(calls, h, k)]]
    /\ ctl_lock' = LockAcquire(ctl_lock, h)
    /\ UNCHANGED <<monitors, sup, cleanup_task, states, quiet>>
    /\ UNCHANGED <<now, rateVars, emitVars, storeVars, regVars, unitVars>>

\* shutdown(): the cleanup task is cancelled and awaited, then the lock is
\* taken.  A finished cleanup task is awaited without suspending.
CallShutdown(h) ==
    /\ calls[h].pc = "idle"
    /\ IF cleanup_task = "done"
       THEN /\ calls' = [calls EXCEPT ![h] =
                           [IdleCall EXCEPT !.op = "shutdown", !.phase = "shutdown",
                                            !.pc = "lock"]]
            /\ ctl_lock' = LockAcquire(ctl_lock, h)
            /\ UNCHANGED cleanup_task
       ELSE /\ calls' = [calls EXCEPT ![h] =
                           [IdleCall EXCEPT !.op = "shutdown", !.phase = "shutdown",
                                            !.pc = "cleanup"]]
            /\ cleanup_task' = "cancelling"
            /\ UNCHANGED ctl_lock
    /\ UNCHANGED <<monitors, sup, states, quiet>>
    /\ UNCHANGED <<now, rateVars, emitVars, storeVars, regVars, unitVars>>

\* _cleanup_loop: CancelledError in its sleep, break.
CleanupCancelled ==
    /\ cleanup_task = "cancelling"
    /\ cleanup_task' = "done"
    /\ UNCHANGED <<monitors, sup, calls, ctl_lock, states, quiet>>
    /\ UNCHANGED <<now, rateVars, emitVars, storeVars, regVars, unitVars>>

\* shutdown(): "await self._cleanup_task" is over, "async with self._lock".
ShutdownCleanupJoined(h) ==
    /\ calls[h].pc = "cleanup" /\ cleanup_task = "done"
    /\ calls' = [calls EXCEPT ![h] = [@ EXCEPT !.pc = "lock"]]
    /\ ctl_lock' = LockAcquire(ctl_lock, h)
    /\ UNCHANGED <<monitors, sup, cleanup_task, states, quiet>>
    /\ UNCHANGED <<now, rateVars, emitVars, storeVars, regVars, unitVars>>

\* start_monitoring returns or raises: the lock is released.
StartReturns(h, m2, sf, q2, res) ==
    /\ monitors' = m2
    /\ sup' = sf
    /\ quiet' = q2
    /\ ctl_lock' = LockRelease(ctl_lock)
    /\ calls' = [calls EXCEPT ![h] =
                   [IdleCall EXCEPT !.result =
                      IF calls[h].op = "update" /\ res = "started"
                      THEN "updated" ELSE res]]
    /\ UNCHANGED <<cleanup_task, states>>

\* start_monitoring with the lock held: the key check, the validation, the
\* TAppMonitor and its start().  An absolute endpoint needs no discovery:
\* the GraphQLMonitor is built, the loop task created and the monitor
\* registered without suspending.  Otherwise start() suspends in
\* get_pods_by_selector, the lock held.
StartLocked(h) ==
    LET c == calls[h]
        spec == TAppSpec(c.spec)
    IN /\ c.pc = "lock" /\ c.phase = "start" /\ ctl_lock.holder = h
       /\ IF KeyRegistered(monitors, c.key)
          THEN StartReturns(h, monitors, sup, quiet, "exists")
          ELSE IF ~TAppConfigValid(spec)
          THEN StartReturns(h, monitors, sup, quiet, "raised")
          ELSE /\ FreeSlots(sup) # {}
               /\ LET i == NewSlot(sup)
                      s0 == [NoMonitor EXCEPT !.key = c.key, !.config = c.spec]
                      q2 == [quiet EXCEPT ![c.key] =
                               IF @ = "polled" THEN "restarted" ELSE "no"]
                  IN IF IsDirectUrl(spec)
                     THEN StartReturns(h, PutKey(monitors, c.key, i),
                                       [sup EXCEPT ![i] =
                                          [s0 EXCEPT !.graphql_monitor = TRUE,
                                                     !.monitor_task = "new"]],
                                       q2, "started")
                     ELSE /\ sup' = [sup EXCEPT ![i] = s0]
                          /\ quiet' = q2
                          /\ calls' = [calls EXCEPT ![h] = [c EXCEPT !.pc = "disc", !.mon = i]]
                          /\ UNCHANGED <<monitors, ctl_lock, cleanup_task, states>>
       /\ UNCHANGED <<now, rateVars, emitVars, storeVars, regVars, unitVars>>

\* A variant of the return from pod discovery that registers the monitor
\* only when a pod was found.
StartDiscoveredOrDropped(h, found) ==
    LET c == calls[h]
        i == c.mon
    IN /\ c.pc = "disc"
       /\ IF found
          THEN StartReturns(h, PutKey(monitors, c.key, i),
                            [sup EXCEPT ![i] = [@ EXCEPT !.graphql_monitor = TRUE,
                                                         !.monitor_task = "new"]],
                            quiet, "started")
          ELSE StartReturns(h, monitors, [sup EXCEPT ![i] = NoMonitor],
                            quiet, "started")
       /\ UNCHANGED <<now, rateVars, emitVars, storeVars, regVars, unitVars>>

\* Pod discovery returned: a pod with an IP (the GraphQLMonitor is built and
\* the loop task created), or no usable pod or an error (start() returns
\* without a task).  Either way the monitor is registered.
StartDiscovered(h, found) ==
    LET c == calls[h]
        i == c.mon
    IN /\ c.pc = "disc"
       /\ StartReturns(h, PutKey(monitors, c.key, i),
                       [sup EXCEPT ![i] =
                          IF found THEN [@ EXCEPT !.graphql_monitor = TRUE,
                                                  !.monitor_task = "new"]
                          ELSE @],
                       quiet, "started")
       /\ UNCHANGED <<now, rateVars, emitVars, storeVars, regVars, unitVars>>

\* stop_monitoring returns: the lock is released; update_monitoring goes on
\* to start_monitoring, whose "async with self._lock" takes the lock at once
\* when nobody is queued.
StopMonitoringReturns(h, m2, sf, st, q, res) ==
    LET c == calls[h]
    IN /\ monitors' = m2
       /\ sup' = sf
       /\ states' = st
       /\ quiet' = [quiet EXCEPT ![c.key] = q]
       /\ IF c.op = "update"
          THEN /\ ctl_lock' = LockAcquire(LockRelease(ctl_lock), h)
               /\ calls' = [calls EXCEPT ![h] =
                              [c EXCEPT !.phase = "start", !.pc = "lock", !.mon = 0]]
          ELSE /\ ctl_lock' = LockRelease(ctl_lock)
               /\ calls' = [calls EXCEPT ![h] = [IdleCall EXCEPT !.result = res]]
       /\ UNCHANGED cleanup_task

\* A variant of shutdown's loop that stops no monitor before the map is
\* cleared.
ShutdownRunSkips(sf, st, rest) ==
    [sup |-> sf, states |-> st, rest |-> <<>>, pc |-> "finish", mon |-> 0]

\* shutdown's loop over list(self._monitors.values()): stop() of one monitor
\* after the other, up to the first stop() that suspends.
RECURSIVE ShutdownRun(_, _, _)
ShutdownRun(sf, st, rest) ==
    IF rest = <<>>
    THEN [sup |-> sf, states |-> st, rest |-> <<>>, pc |-> "finish", mon |-> 0]
    ELSE LET i == Head(rest)
         IN IF NeedsJoin(sf[i])
            THEN [sup |-> [sf EXCEPT ![i] = StopSignalled(sf[i])], states |-> st,
                  rest |-> Tail(rest), pc |-> "join", mon |-> i]
            ELSE ShutdownRun([sf EXCEPT ![i] = StopFinished(StopSignalled(sf[i]))],
                             remove_state(st, sf[i].key), Tail(rest))

\* shutdown goes on after a stop(); with no monitor left: clear(), release.
ShutdownContinues(h, sf, st, rest) ==
    LET c == calls[h]
        r == ShutdownRun(sf, st, rest)
    IN /\ states' = r.states
       /\ IF r.pc = "finish"
          THEN /\ monitors' = <<>>
               /\ sup' = [i \in MonitorIds |->
                            IF Registered(monitors, i) THEN Reclaim(r.sup[i]) ELSE r.sup[i]]
               /\ ctl_lock' = LockRelease(ctl_lock)
               /\ calls' = [calls EXCEPT ![h] =
                              [IdleCall EXCEPT !.result = "shutdown",
                                               !.nstopped = Len(monitors)]]
          ELSE /\ sup' = r.sup
               /\ calls' = [calls EXCEPT ![h] =
                              [c EXCEPT !.pc = "join", !.mon = r.mon, !.rest = r.rest]]
               /\ UNCHANGED <<monitors, ctl_lock>>
       /\ UNCHANGED <<cleanup_task, quiet>>

\* What quiet records when stop_monitoring has stopped monitor s.
QuietAfter(s) == IF s.nsucc > 0 THEN "polled" ELSE "stopped"

\* stop() called on a TAppMonitor directly returns to its caller.
SupStopReturns(h, sf, st) ==
    /\ sup' = sf
    /\ states' = st
    /\ calls' = [calls EXCEPT ![h] = [IdleCall EXCEPT !.result = "sup_stopped"]]
    /\ UNCHANGED <<monitors, ctl_lock, cleanup_task, quiet>>

\* The caller's stop() of monitor i has finished (state removed).
StopReturned(h, i, s2) ==
    LET c == calls[h]
        st == remove_state(states, s2.key)
    IN IF c.phase = "stop"
       THEN StopMonitoringReturns(h, monitors, [sup EXCEPT ![i] = Reclaim(s2)], st,
                                  QuietAfter(s2), "stopped")
       ELSE IF c.phase = "shutdown"
       THEN ShutdownContinues(h, [sup EXCEPT ![i] = s2], st, c.rest)
       ELSE SupStopReturns(h, [sup EXCEPT ![i] = s2], st)

\* stop_monitoring with the lock held: pop, then stop() of the popped
\* monitor, still under the lock.
StopLocked(h) ==
    LET c == calls[h]
    IN /\ c.pc = "lock" /\ c.phase = "stop" /\ ctl_lock.holder = h
       /\ IF ~KeyRegistered(monitors, c.key)
          THEN StopMonitoringReturns(h, monitors, sup, states,
                                     IF quiet[c.key] = "polled" THEN "polled" ELSE "stopped",
                                     "notfound")
          ELSE LET i == monitors[MonitorOf(monitors, c.key)].mon
                   s1 == StopSignalled(sup[i])
               IN IF NeedsJoin(sup[i])
                  THEN /\ monitors' = PopKey(monitors, c.key)
                       /\ sup' = [sup EXCEPT ![i] = s1]
                       /\ calls' = [calls EXCEPT ![h] = [c EXCEPT !.pc = "join", !.mon = i]]
                       /\ UNCHANGED <<ctl_lock, cleanup_task, states, quiet>>
                  ELSE StopMonitoringReturns(h, PopKey(monitors, c.key),
                                             [sup EXCEPT ![i] = Reclaim(StopFinished(s1))],
                                             remove_state(states, c.key),
                                             QuietAfter(s1), "stopped")
       /\ UNCHANGED <<now, rateVars, emitVars, storeVars, regVars, unitVars>>

\* stop(): the awaited task has finished; _monitor_task = None; close() of
\* the GraphQLMonitor suspends in transport.close() when a transport exists.
StopJoined(h) ==
    LET c == calls[h]
        i == c.mon
        s1 == [sup[i] EXCEPT !.monitor_task = "none", !.cancelled = FALSE]
    IN /\ c.pc = "join" /\ TaskJoined(sup[i])
       /\ IF s1.graphql_monitor /\ s1.transport
          THEN /\ sup' = [sup EXCEPT ![i] = s1]
               /\ calls' = [calls EXCEPT ![h] = [c EXCEPT !.pc = "close"]]
               /\ UNCHANGED <<monitors, ctl_lock, cleanup_task, states, quiet>>
          ELSE StopReturned(h, i, StopFinished(s1))
       /\ UNCHANGED <<now, rateVars, emitVars, storeVars, regVars, unitVars>>

\* stop(): transport.close() returned; remove_state; stop() returns.
StopClosed(h) ==
    LET c == calls[h]
    IN /\ c.pc = "close"
       /\ StopReturned(h, c.mon, StopFinished(sup[c.mon]))
       /\ UNCHANGED <<now, rateVars, emitVars, storeVars, regVars, unitVars>>

\* shutdown with the lock held.
ShutdownLocked(h) ==
    LET c == calls[h]
    IN /\ c.pc = "lock" /\ c.phase = "shutdown" /\ ctl_lock.holder = h
       /\ ShutdownContinues(h, sup, states, [n \in 1..Len(monitors) |-> monitors[n].mon])
       /\ UNCHANGED <<now, rateVars, emitVars, storeVars, regVars, unitVars>>

(***************************************************************************)
(* TAppMonitor.start and TAppMonitor.stop called on one object directly    *)
(***************************************************************************)
\* A variant of the test in start() that never finds a task.
AlreadyStartedNever(s) == FALSE

\* "if self._monitor_task is not None:" in start().
AlreadyStarted(s) == s.monitor_task # "none"

\* start() of monitor i: a no-op when the object has a task; otherwise
\* _initialize_graphql_monitor (which suspends in pod discovery unless the
\* endpoint is absolute) and the loop task.
SupStart(h, i) ==
    /\ calls[h].pc = "idle" /\ sup[i] # NoMonitor
    /\ IF AlreadyStarted(sup[i])
       THEN /\ calls' = [calls EXCEPT ![h] = [IdleCall EXCEPT !.result = "already"]]
            /\ UNCHANGED sup
       ELSE IF IsDirectUrl(TAppSpec(sup[i].config))
       THEN /\ sup' = [sup EXCEPT ![i] = [@ EXCEPT !.graphql_monitor = TRUE,
                                                    !.monitor_task = "new"]]
            /\ calls' = [calls EXCEPT ![h] = [IdleCall EXCEPT !.result = "sup_started"]]
       ELSE /\ calls' = [calls EXCEPT ![h] =
                           [IdleCall EXCEPT !.op = "sup_start", !.phase = "sup",
                                            !.key = sup[i].key, !.pc = "disc", !.mon = i]]
            /\ UNCHANGED sup
    /\ UNCHANGED <<monitors, ctl_lock, cleanup_task, states, quiet>>
    /\ UNCHANGED <<now, rateVars, emitVars, storeVars, regVars, unitVars>>

\* start(): pod discovery returned; with a pod the GraphQLMonitor is built
\* and the loop task created, without one start() returns with neither.
SupDiscovered(h, found) ==
    LET c == calls[h]
        i == c.mon
    IN /\ c.pc = "disc" /\ c.phase = "sup"
       /\ sup' = [sup EXCEPT ![i] =
                    IF found THEN [@ EXCEPT !.graphql_monitor = TRUE,
                                            !.monitor_task = "new"]
                    ELSE @]
       /\ calls' = [calls EXCEPT ![h] =
                      [IdleCall EXCEPT !.result =
                         IF found THEN "sup_started" ELSE "sup_nomonitor"]]
       /\ UNCHANGED <<monitors, ctl_lock, cleanup_task, states, quiet>>
       /\ UNCHANGED <<now, rateVars, emitVars, storeVars, regVars, unitVars>>

\* stop() of monitor i up to its first suspension.
SupStop(h, i) ==
    LET s1 == StopSignalled(sup[i])
    IN /\ calls[h].pc = "idle" /\ sup[i] # NoMonitor
       /\ IF NeedsJoin(sup[i])
          THEN /\ sup' = [sup EXCEPT ![i] = s1]
               /\ calls' = [calls EXCEPT ![h] =
                              [IdleCall EXCEPT !.op = "sup_stop", !.phase = "sup",
                                               !.key = s1.key, !.pc = "join", !.mon = i]]
               /\ UNCHANGED <<monitors, ctl_lock, cleanup_task, states, quiet>>
          ELSE SupStopReturns(h, [sup EXCEPT ![i] = StopFinished(s1)],
                              remove_state(states, s1.key))
       /\ UNCHANGED <<now, rateVars, emitVars, storeVars, regVars, unitVars>>

(***************************************************************************)
(* Spec: the controller and its supervisors                                *)
(***************************************************************************)
\* MonitoringController.__init__ and StateManager.__init__.
InitCtl ==
    /\ monitors = <<>>
    /\ sup = [i \in MonitorIds |-> NoMonitor]
    /\ calls = [h \in Callers |-> IdleCall]
    /\ ctl_lock = [holder |-> "none", waiters |-> <<>>]
    /\ cleanup_task = "running"
    /\ states = [k \in Keys |-> NoSnapshot]
    /\ quiet = [k \in Keys |-> "no"]

Init ==
    /\ InitCtl
    /\ now = 0
    /\ requests_per_minute = 0
    /\ buckets = <<>>
    /\ acq = <<>>
    /\ win = <<>>
    /\ emit = <<>>
    /\ recent_events = <<>>
    /\ cluster = <<>>
    /\ ret = <<>>
    /\ written = <<>>
    /\ reg = <<>>
    /\ gq = <<>>
    /\ trig = <<>>

Next ==
    \/ \E h \in Callers, k \in Keys, sp \in SpecNames : CallStart(h, k, sp)
    \/ \E h \in Callers, k \in Keys : CallStop(h, k)
    \/ \E h \in Callers, k \in Keys, sp \in SpecNames : CallUpdate(h, k, sp)
    \/ \E h \in Callers : CallShutdown(h)
    \/ CleanupCancelled
    \/ \E h \in Callers : ShutdownCleanupJoined(h)
    \/ \E h \in Callers : StartLocked(h)
    \/ \E h \in Callers, found \in BOOLEAN : StartDiscovered(h, found)
    \/ \E h \in Callers : StopLocked(h)
    \/ \E h \in Callers : StopJoined(h)
    \/ \E h \in Callers : StopClosed(h)
    \/ \E h \in Callers : ShutdownLocked(h)
    \/ \E i \in MonitorIds : LoopFirstRun(i)
    \/ \E i \in MonitorIds, r \in {"unhealthy", "granted", "wait", "denied"} : HealthDone(i, r)
    \/ \E i \in MonitorIds, granted \in BOOLEAN : RateWaitDone(i, granted)
    \/ \E i \in MonitorIds, data \in Payloads : QueryDone(i, data)
    \/ \E i \in MonitorIds : QueryFailed(i)
    \/ \E i \in MonitorIds, created \in BOOLEAN : EmitDone(i, created)
    \/ \E i \in MonitorIds, outcome \in ExecuteOutcomes : ExecDone(i, outcome)
    \/ \E i \in MonitorIds : SleepDone(i)
    \/ \E i \in MonitorIds : TaskCancelled(i)

Spec == Init /\ [][Next]_vars


(***************************************************************************)
(* SpecRate: the RateLimiter and its token buckets                         *)
(*                                                                         *)
(* The clock counts seconds.  Token amounts are kept in sixtieths of a     *)
(* token, so that requests_per_minute / 60.0 tokens per second is the      *)
(* integer requests_per_minute per second and the refill arithmetic is     *)
(* exact.  The clock does not run backwards.                               *)
(***************************************************************************)
\* requests_per_minute / 60.0: the sixtieths of a token in a token.
TokenUnit == 60

\* The clock of SpecRate advances by RateTickStep up to MaxRateTime.
RateTickStep == 10
MaxRateTime == 30

\* The limits the RateLimiter is built with (rate_limit_requests), the token
\* counts and the timeouts of the acquire calls (0: do not wait).
RPMs == {6, 100}
AcquireTokens == {1, 3}
AcquireTimeouts == {0, 15}

Min(a, b) == IF a <= b THEN a ELSE b

NoBucket == [capacity |-> 0, tokens |-> 0, last_refill |-> 0, refill_rate |-> 0]

\* _get_or_create_bucket: capacity = max(10, rpm // 6), created full.
BucketCapacity(rpm) == IF rpm \div 6 > 10 THEN rpm \div 6 ELSE 10
NewBucket(rpm, t) ==
    [capacity |-> BucketCapacity(rpm), tokens |-> TokenUnit * BucketCapacity(rpm),
     last_refill |-> t, refill_rate |-> rpm]
_get_or_create_bucket(bs, rpm, k, t) ==
    IF bs[k] = NoBucket THEN [bs EXCEPT ![k] = NewBucket(rpm, t)] ELSE bs

\* Variants of the refill without the cap, and of consume without the
\* "enough tokens" test; the bucket properties below fail with them.
RefilledUncapped(b, t) == b.tokens + (t - b.last_refill) * b.refill_rate
consume_unchecked(b, tokens, t) ==
    [bucket |-> [b EXCEPT !.tokens = Min(TokenUnit * b.capacity,
                                         b.tokens + (t - b.last_refill) * b.refill_rate)
                                     - TokenUnit * tokens,
                          !.last_refill = t],
     ok |-> TRUE]

\* consume: min(capacity, tokens + elapsed * refill_rate) ...
Refilled(b, t) ==
    Min(TokenUnit * b.capacity, b.tokens + (t - b.last_refill) * b.refill_rate)

\* ... last_refill = now, and the tokens are taken if there are enough.
consume(b, tokens, t) ==
    IF Refilled(b, t) >= TokenUnit * tokens
    THEN [bucket |-> [b EXCEPT !.tokens = Refilled(b, t) - TokenUnit * tokens,
                               !.last_refill = t],
          ok |-> TRUE]
    ELSE [bucket |-> [b EXCEPT !.tokens = Refilled(b, t), !.last_refill = t],
          ok |-> FALSE]

\* A variant of time_until_available that always answers 0.0.
time_until_available_now(b, tokens) == 0

\* time_until_available(tokens) * refill_rate, in sixtieths of a token.
time_until_available(b, tokens) ==
    IF b.tokens >= TokenUnit * tokens THEN 0 ELSE TokenUnit * tokens - b.tokens

\* An acquire call: idle (with the result of the last call), or suspended
\* in asyncio.sleep(wait_time).  taken is what the call's consume took from
\* the bucket (history).
IdleAcquire ==
    [pc |-> "idle", key |-> NoKey, tokens |-> 0, since |-> 0, wait |-> 0,
     waited |-> FALSE, result |-> "none", taken |-> 0]

\* The observation window (history): closed, or open since start with the
\* tokens granted in it.
NoWindow == [open |-> FALSE, start |-> 0, granted |-> 0]
Granted(w, n) == IF w.open THEN [w EXCEPT !.granted = @ + n] ELSE w

\* acquire(namespace, name, tokens, timeout) up to its return or its sleep.
Acquire(h, k, tokens, timeout) ==
    /\ acq[h].pc = "idle"
    /\ LET bs == _get_or_create_bucket(buckets, requests_per_minute, k, now)
           r == consume(bs[k], tokens, now)
           took == Refilled(bs[k], now) - r.bucket.tokens
           call == [IdleAcquire EXCEPT !.key = k, !.tokens = tokens, !.taken = took]
           wait_time == time_until_available(r.bucket, tokens)
       IN /\ buckets' = [bs EXCEPT ![k] = r.bucket]
          /\ IF r.ok
             THEN /\ acq' = [acq EXCEPT ![h] = [call EXCEPT !.result = "true"]]
                  /\ win' = Granted(win, tokens)
             ELSE /\ win' = win
                  /\ IF timeout = 0 \/ wait_time > timeout * r.bucket.refill_rate
                     THEN acq' = [acq EXCEPT ![h] = [call EXCEPT !.result = "false"]]
                     ELSE acq' = [acq EXCEPT ![h] =
                                    [call EXCEPT !.pc = "sleep", !.since = now,
                                                 !.wait = wait_time]]
    /\ UNCHANGED <<now, requests_per_minute, ctlVars, emitVars, storeVars, regVars, unitVars>>

\* asyncio.sleep(wait_time) is over (not before wait_time has passed): the
\* second consume decides.
AcquireWake(h) ==
    /\ acq[h].pc = "sleep"
    /\ (now - acq[h].since) * buckets[acq[h].key].refill_rate >= acq[h].wait
    /\ LET b == buckets[acq[h].key]
           r == consume(b, acq[h].tokens, now)
           took == acq[h].taken + (Refilled(b, now) - r.bucket.tokens)
       IN /\ buckets' = [buckets EXCEPT ![acq[h].key] = r.bucket]
          /\ acq' = [acq EXCEPT ![h] =
                       [@ EXCEPT !.pc = "idle", !.since = 0, !.wait = 0,
                                 !.waited = TRUE, !.taken = took,
                                 !.result = IF r.ok THEN "true" ELSE "false"]]
          /\ win' = IF r.ok THEN Granted(win, acq[h].tokens) ELSE win
    /\ UNCHANGED <<now, requests_per_minute, ctlVars, emitVars, storeVars, regVars, unitVars>>

\* time.time() advances.
RateTick ==
    /\ now + RateTickStep <= MaxRateTime
    /\ now' = now + RateTickStep
    /\ UNCHANGED <<rateVars, ctlVars, emitVars, storeVars, regVars, unitVars>>

\* The observation window opens (history).
WindowOpens ==
    /\ ~win.open
    /\ win' = [open |-> TRUE, start |-> now, granted |-> 0]
    /\ UNCHANGED <<now, requests_per_minute, buckets, acq, ctlVars, emitVars, storeVars, regVars, unitVars>>

InitRate ==
    /\ InitCtl
    /\ now = 0
    /\ requests_per_minute \in RPMs
    /\ buckets = [k \in Keys |-> NoBucket]
    /\ acq = [h \in Callers |-> IdleAcquire]
    /\ win = NoWindow
    /\ emit = <<>>
    /\ recent_events = <<>>
    /\ cluster = <<>>
    /\ ret = <<>>
    /\ written = <<>>
    /\ reg = <<>>
    /\ gq = <<>>
    /\ trig = <<>>

NextRate ==
    \/ \E h \in Callers, k \in Keys, n \in AcquireTokens, timeout \in AcquireTimeouts :
         Acquire(h, k, n, timeout)
    \/ \E h \in Callers : AcquireWake(h)
    \/ RateTick
    \/ WindowOpens

SpecRate == InitRate /\ [][NextRate]_vars

\* C7: in any window of T seconds the tokens granted to acquire calls on a
\* key (one per successful acquire(tenant, 1)) are at most
\* max(10, rpm/6) + (rpm/60) * T, for every interleaving of the callers;
\* in sixtieths of a token: 60 * granted <= max(600, 10 * rpm) + rpm * T.
C7_WindowBound ==
    win.open =>
      TokenUnit * win.granted
        <= (IF 10 * requests_per_minute > 600 THEN 10 * requests_per_minute ELSE 600)
           + requests_per_minute * (now - win.start)

\* C7 witness: with rpm = 6, a window that opened after the bucket was
\* created has lasted 20 s and 12 tokens were granted in it, the bound.
C7_Witness ==
    /\ requests_per_minute = 6 /\ win.open
    /\ now - win.start = 2 * RateTickStep
    /\ TokenUnit * win.granted = 600 + 6 * (now - win.start)
    /\ \E h \in Callers : acq[h].waited /\ acq[h].result = "true"

\* C8: every bucket has 0 <= tokens <= capacity, and of the acquire calls
\* that have returned, also after a wait, each that returned true took
\* exactly its n tokens from the bucket and each that returned false none.
C8_AcquireLinearizable ==
    /\ \A k \in Keys :
         buckets[k] # NoBucket =>
           /\ buckets[k].tokens >= 0
           /\ buckets[k].tokens <= TokenUnit * buckets[k].capacity
    /\ \A h \in Callers :
         /\ acq[h].result = "true" => acq[h].taken = TokenUnit * acq[h].tokens
         /\ acq[h].result = "false" => acq[h].taken = 0
         /\ acq[h].pc = "sleep" => acq[h].taken = 0

\* C8 witness: one call has returned true after its wait and another has
\* returned false after its wait, on a bucket that is neither full nor empty.
C8_Witness ==
    \E h1, h2 \in Callers :
      /\ acq[h1].waited /\ acq[h1].result = "true"
      /\ acq[h2].waited /\ acq[h2].result = "false"
      /\ acq[h1].key = acq[h2].key
      /\ buckets[acq[h1].key].tokens > 0
      /\ buckets[acq[h1].key].tokens < TokenUnit * buckets[acq[h1].key].capacity

(***************************************************************************)
(* SpecEmit: the EventGenerator's deduplication                            *)
(*                                                                         *)
(* Loop tasks hand events to the one EventGenerator, which decides by the   *)
(* event key (namespace/name, reason, message) and the clock.              *)
(***************************************************************************)
\* self._deduplication_window_seconds
DedupWindow == 300

\* The clock of SpecEmit advances by EmitTickStep up to MaxEmitTime; at most
\* MaxAttempts emit attempts per key are followed in one window.
EmitTickStep == 100
MaxEmitTime == 700
MaxAttempts == 3

\* The loop tasks that emit, and the events they ask for.
Emitters == {"t1", "t2"}
EmitEvents ==
    {Event("ns/a", "InitialStateDetected", <<"initial state detected">>, "Normal"),
     Event("ns/a", "StateFieldChanged", <<"field changed", HealthField>>, "Warning")}
EventKeys == {e.key : e \in EmitEvents}

\* A variant of the sweep that drops every entry recorded before now.
SweepAll(re, t) == [key \in EventKeys |-> IF re[key] < t THEN -1 ELSE re[key]]

\* _should_create_event, the sweep: entries with timestamp < now - window
\* are deleted (-1: no entry).
Sweep(re, t) ==
    [key \in EventKeys |-> IF re[key] < t - DedupWindow THEN -1 ELSE re[key]]

\* A variant of _should_create_event that records now for a duplicate too.
_should_create_event_refreshing(re, event_key, t) ==
    LET swept == Sweep(re, t)
    IN [recent_events |-> [swept EXCEPT ![event_key] = t],
        create |-> swept[event_key] = -1]

\* A variant of _should_create_event that leaves the recording of the key
\* to the caller, after the create call.
_should_create_event_unrecorded(re, event_key, t) ==
    LET swept == Sweep(re, t)
    IN [recent_events |-> swept, create |-> swept[event_key] = -1]

\* _should_create_event: sweep, then False for a key in the cache, else the
\* key is recorded with now and the answer is True.
_should_create_event(re, event_key, t) ==
    LET swept == Sweep(re, t)
    IN IF swept[event_key] # -1
       THEN [recent_events |-> swept, create |-> FALSE]
       ELSE [recent_events |-> [swept EXCEPT ![event_key] = t], create |-> TRUE]

IdleEmit == [pc |-> "idle", ev |-> NoEvent, at |-> 0]

\* History, per event key: first is the time of the attempt that opened the
\* current 5-minute window (-1: none yet), tries the attempts made in it,
\* calls the create_event calls they issued, created those that succeeded.
NoAttempts == [first |-> -1, tries |-> 0, calls |-> 0, created |-> 0]
InWindow(c, t) == c.first # -1 /\ t - c.first <= DedupWindow
Attempted(c, t, create) ==
    IF InWindow(c, t)
    THEN [c EXCEPT !.tries = @ + 1, !.calls = @ + (IF create THEN 1 ELSE 0)]
    ELSE [first |-> t, tries |-> 1, calls |-> IF create THEN 1 ELSE 0, created |-> 0]

\* A generator method asks _should_create_event for event e; on True it
\* suspends in k8s_client.create_event.
EmitAttempt(t, e) ==
    LET event_key == e.key
        r == _should_create_event(recent_events, event_key, now)
    IN /\ emit[t].pc = "idle"
       /\ InWindow(cluster[event_key], now) => cluster[event_key].tries < MaxAttempts
       /\ recent_events' = r.recent_events
       /\ cluster' = [cluster EXCEPT ![event_key] = Attempted(@, now, r.create)]
       /\ emit' = [emit EXCEPT ![t] =
                     IF r.create THEN [pc |-> "create", ev |-> e, at |-> now]
                     ELSE IdleEmit]
       /\ UNCHANGED <<now, ctlVars, rateVars, storeVars, regVars, unitVars>>

\* create_event returned (the cluster has the event) or raised (logged by
\* the generator, nothing else).  The history counts the event in the
\* window its attempt was made in.
EmitCreateDone(t, ok) ==
    /\ emit[t].pc = "create"
    /\ cluster' = [cluster EXCEPT ![emit[t].ev.key] =
                     IF ok /\ InWindow(@, emit[t].at) /\ emit[t].at >= @.first
                     THEN [@ EXCEPT !.created = @ + 1] ELSE @]
    /\ emit' = [emit EXCEPT ![t] = IdleEmit]
    /\ UNCHANGED <<now, recent_events, ctlVars, rateVars, storeVars, regVars, unitVars>>

\* datetime.now advances.
EmitTick ==
    /\ now + EmitTickStep <= MaxEmitTime
    /\ now' = now + EmitTickStep
    /\ UNCHANGED <<emitVars, ctlVars, rateVars, storeVars, regVars, unitVars>>

InitEmit ==
    /\ InitCtl
    /\ now = 0
    /\ requests_per_minute = 0
    /\ buckets = <<>>
    /\ acq = <<>>
    /\ win = <<>>
    /\ emit = [t \in Emitters |-> IdleEmit]
    /\ recent_events = [key \in EventKeys |-> -1]
    /\ cluster = [key \in EventKeys |-> NoAttempts]
    /\ ret = <<>>
    /\ written = <<>>
    /\ reg = <<>>
    /\ gq = <<>>
    /\ trig = <<>>

NextEmit ==
    \/ \E t \in Emitters, e \in EmitEvents : EmitAttempt(t, e)
    \/ \E t \in Emitters, ok \in BOOLEAN : EmitCreateDone(t, ok)
    \/ EmitTick

SpecEmit == InitEmit /\ [][NextEmit]_vars

EntriesOf(k) == {n \in 1..Len(monitors) : monitors[n].key = k}
SlotsOf(k) == {i \in MonitorIds : sup[i].key = k}
RunningOf(k) == {i \in SlotsOf(k) : LiveTask(sup[i])}

\* C1: under every interleaving of start_monitoring, stop_monitoring,
\* update_monitoring and shutdown, a tenant key has at most one registry
\* entry and at most one running loop task; a registered key (started, not
\* yet stopped) has exactly one Supervisor object, the registered one, and no
\* loop of that key runs outside it.
C1_OneSupervisorPerKey ==
    \A k \in Keys :
      /\ Cardinality(EntriesOf(k)) <= 1
      /\ Cardinality(RunningOf(k)) <= 1
      /\ \A n \in EntriesOf(k) : SlotsOf(k) = {monitors[n].mon}

\* C1 witness: a registered Supervisor is in a query after one controller
\* call has returned from a restart, and a start_monitoring call for the
\* same key is at the controller's lock.
C1_Witness ==
    \E k \in Keys, h1, h2 \in Callers, i \in MonitorIds :
      /\ EntriesOf(k) # {} /\ RunningOf(k) = {i}
      /\ sup[i].monitor_task = "query"
      /\ calls[h1].result = "updated"
      /\ calls[h2].op = "start" /\ calls[h2].key = k /\ calls[h2].pc = "lock"

\* C2: once stop_monitoring(k) has returned, and until a Supervisor is
\* created for k again, no loop task of k is alive (so no event is created
\* and no handler executed for k) and the state store has no snapshot of k.
C2_QuietAfterStop ==
    \A k \in Keys :
      quiet[k] \in {"stopped", "polled"} =>
        /\ states[k] = NoSnapshot
        /\ RunningOf(k) = {}
        /\ \A i \in SlotsOf(k) : sup[i].monitor_task \notin {"emit", "exec"}

\* C2 witness: stop_monitoring has returned for a Supervisor that had
\* stored a snapshot.
C2_Witness == \E k \in Keys : quiet[k] = "polled" /\ \E h \in Callers : calls[h].result = "stopped"

\* The positions of a loop task inside a poll cycle.
InCycle == {"health", "rlwait", "query", "emit", "exec"}

\* C3: poll cycles of one key never overlap: while a loop task of k is
\* inside a cycle no other loop task of k is alive, and a cycle begins only
\* at the loop head (first run, or after the interval sleep) of a task that
\* is the only one alive for its key; so the first cycle of a restarted
\* Supervisor begins after the loop of the one it replaces has ended.
C3_InvPart ==
    \A i, j \in MonitorIds :
      (i # j /\ sup[i].key = sup[j].key /\ sup[i].monitor_task \in InCycle)
        => ~LiveTask(sup[j])
C3_ActPart ==
    \A i \in MonitorIds :
      (sup'[i].monitor_task = "health" /\ sup[i].monitor_task # "health")
        => /\ sup[i].monitor_task \in {"new", "sleep", "errsleep"}
           /\ \A j \in MonitorIds \ {i} : sup[j].key = sup[i].key => ~LiveTask(sup[j])
C3_CyclesSerialized == []C3_InvPart /\ [][C3_ActPart]_vars

\* C3 witness: the Supervisor created by a restart of a polled key is in its
\* first query.
C3_Witness ==
    \E k \in Keys, i \in MonitorIds :
      /\ quiet[k] = "restarted" /\ sup[i].key = k
      /\ sup[i].monitor_task = "query" /\ sup[i].nsucc = 0

\* C4: a cycle whose StateChange has no changes (old snapshot present, no
\* changed field) creates no event and executes no handler, whatever the
\* configured triggers: a task is in create_event or handler.execute only
\* with a StateChange that has changes, the query step before it has changed
\* the stored snapshot, and InitialStateDetected is attempted only in the
\* first successful cycle of a Supervisor.
C4_InvPart ==
    \A i \in MonitorIds :
      sup[i].monitor_task \in {"emit", "exec"} =>
        /\ has_changes(sup[i].sc)
        /\ (sup[i].monitor_task = "emit"
              /\ Head(sup[i].todo).ev.reason = "InitialStateDetected")
             => sup[i].nsucc = 1
C4_ActPart ==
    \A i \in MonitorIds :
      (sup[i].monitor_task = "query" /\ sup'[i].monitor_task \in {"emit", "exec"})
        => states'[sup[i].key] # states[sup[i].key]
C4_NoChangeNoEffect == []C4_InvPart /\ [][C4_ActPart]_vars

\* C4 witness: a Supervisor whose configuration has triggers on the polled
\* field has finished a cycle that returned the stored payload again.
C4_Witness ==
    \E i \in MonitorIds :
      /\ sup[i].config = "pods" /\ sup[i].nsucc = 2
      /\ sup[i].last = "same" /\ sup[i].monitor_task = "sleep"

\* stop() of the object has run to its end (state removed).
StopDone(s) == s.stop_event /\ s.monitor_task = "none" /\ ~s.graphql_monitor

\* C5 as stated: the store has a snapshot of k exactly when the Supervisor
\* registered for k has completed a successful query.
C5_AsStated ==
    \A k \in Keys :
      states[k] # NoSnapshot <=>
        \E n \in EntriesOf(k) : sup[monitors[n].mon].nsucc >= 1

\* C5, amended: the store has a snapshot of k exactly when a Supervisor of k
\* whose stop() has not yet finished (registered, or popped by a
\* stop_monitoring still in progress) has completed a successful query.
C5_SnapshotIffPolled ==
    \A k \in Keys :
      states[k] # NoSnapshot <=>
        \E i \in SlotsOf(k) : sup[i].nsucc >= 1 /\ ~StopDone(sup[i])

\* C5 witness: stop_monitoring has popped a Supervisor and awaits its loop
\* task; the snapshot is still stored.
C5_Witness ==
    \E h \in Callers :
      /\ calls[h].phase = "stop" /\ calls[h].pc = "join"
      /\ states[calls[h].key] # NoSnapshot
      /\ EntriesOf(calls[h].key) = {}

\* C9: a start_monitoring that finds its key registered returns without
\* creating or starting a Supervisor: the registry, every Supervisor (config,
\* loop task) and the state store are as before.
C9_ActPart ==
    \A h \in Callers :
      (/\ calls[h].pc = "lock" /\ calls[h].phase = "start"
       /\ calls'[h].pc # "lock"
       /\ EntriesOf(calls[h].key) # {})
        => /\ calls'[h].pc = "idle" /\ calls'[h].result = "exists"
           /\ monitors' = monitors /\ sup' = sup /\ states' = states
C9_StartOnRegisteredKey == [][C9_ActPart]_vars

\* C9 witness: start_monitoring with another spec has returned on a key whose
\* registered Supervisor is polling with a stored snapshot.
C9_Witness ==
    \E h \in Callers, k \in Keys, n \in 1..Len(monitors) :
      /\ calls[h].result = "exists" /\ monitors[n].key = k
      /\ sup[monitors[n].mon].config = "pods"
      /\ sup[monitors[n].mon].monitor_task = "sleep"
      /\ states[k] # NoSnapshot

\* The first successful cycle of s found no old snapshot.
InitialCycle(s) == (s.sc # <<>> /\ is_initial(s.sc)) \/ s.last = "initial"

\* C10: when update_monitoring(k, spec) with a valid spec returns and no
\* other call for k was in flight during it, k has exactly one registry
\* entry, its Supervisor was created from spec and has not polled, no other
\* object of k is left and the store has no snapshot of k; and the first
\* successful query of a Supervisor yields an initial StateChange.
C10_ReturnPart ==
    \A h \in Callers :
      (/\ calls[h].op = "update" /\ calls'[h].pc = "idle"
       /\ TAppConfigValid(TAppSpec(calls[h].spec))
       /\ ~calls[h].overlap)
        => LET k == calls[h].key
               E == {n \in 1..Len(monitors') : monitors'[n].key = k}
           IN /\ Cardinality(E) = 1
              /\ \A n \in E :
                   LET i == monitors'[n].mon
                   IN /\ sup'[i].key = k /\ sup'[i].config = calls[h].spec
                      /\ sup'[i].nsucc = 0 /\ ~sup'[i].stop_event
                      /\ \A j \in MonitorIds \ {i} : sup'[j].key # k
              /\ states'[k] = NoSnapshot
C10_FirstPollPart ==
    \A i \in MonitorIds :
      (sup[i].nsucc = 0 /\ sup'[i].nsucc = 1) => InitialCycle(sup'[i])
C10_UpdateRestarts == [][C10_ReturnPart /\ C10_FirstPollPart]_vars

\* C10 witness: an update has returned on a key whose previous Supervisor
\* had a snapshot, and the new Supervisor's first successful cycle is
\* emitting its initial event.
C10_Witness ==
    \E h \in Callers, i \in MonitorIds, k \in Keys :
      /\ calls[h].result = "updated" /\ sup[i].key = k /\ quiet[k] = "restarted"
      /\ sup[i].monitor_task = "emit" /\ sup[i].nsucc = 1 /\ is_initial(sup[i].sc)


(***************************************************************************)
(* SpecFleet: the controller with two tenants, started and shut down       *)
(*                                                                         *)
(* The same actions as Spec over two tenant keys.  Caller h1 is the        *)
(* handler of created resources (start_monitoring), caller h2 the          *)
(* operator's cleanup handler (shutdown); the polled targets answer with   *)
(* FleetPayloads, the rate limiter grants at once and every create_event   *)
(* succeeds, which leaves every await of the loop open to cancellation but *)
(* the limiter's own sleep.                                                *)
(***************************************************************************)
FleetKeys == {"ns/a", "ns/b"}
FleetSpecs == {"direct", "pods"}
FleetPayloads == {HealthyData}

InitFleet ==
    /\ monitors = <<>>
    /\ sup = [i \in MonitorIds |-> NoMonitor]
    /\ calls = [h \in Callers |-> IdleCall]
    /\ ctl_lock = [holder |-> "none", waiters |-> <<>>]
    /\ cleanup_task = "running"
    /\ states = [k \in FleetKeys |-> NoSnapshot]
    /\ quiet = [k \in FleetKeys |-> "no"]
    /\ now = 0
    /\ requests_per_minute = 0
    /\ buckets = <<>>
    /\ acq = <<>>
    /\ win = <<>>
    /\ emit = <<>>
    /\ recent_events = <<>>
    /\ cluster = <<>>
    /\ ret = <<>>
    /\ written = <<>>
    /\ reg = <<>>
    /\ gq = <<>>
    /\ trig = <<>>

NextFleet ==
    \/ \E k \in FleetKeys, sp \in FleetSpecs : CallStart("h1", k, sp)
    \/ CallShutdown("h2")
    \/ CleanupCancelled
    \/ ShutdownCleanupJoined("h2")
    \/ StartLocked("h1")
    \/ \E found \in BOOLEAN : StartDiscovered("h1", found)
    \/ ShutdownLocked("h2")
    \/ StopJoined("h2")
    \/ StopClosed("h2")
    \/ \E i \in MonitorIds : LoopFirstRun(i)
    \/ \E i \in MonitorIds, r \in {"unhealthy", "granted"} : HealthDone(i, r)
    \/ \E i \in MonitorIds, data \in FleetPayloads : QueryDone(i, data)
    \/ \E i \in MonitorIds : QueryFailed(i)
    \/ \E i \in MonitorIds : EmitDone(i, TRUE)
    \/ \E i \in MonitorIds, outcome \in {"success", "raises"} : ExecDone(i, outcome)
    \/ \E i \in MonitorIds : SleepDone(i)
    \/ \E i \in MonitorIds : TaskCancelled(i)

SpecFleet == InitFleet /\ [][NextFleet]_vars

\* C11: when shutdown returns, the cleanup task has ended, the supervisor
\* map is empty, and every Supervisor that was in the map when shutdown took
\* the controller's lock is stopped: no loop task of its key is alive and
\* the state store has no snapshot of its key.  While shutdown holds the
\* lock the map does not change.
C11_ReturnPart ==
    \A h \in Callers :
      (calls[h].op = "shutdown" /\ calls'[h].pc = "idle")
        => /\ cleanup_task' = "done"
           /\ monitors' = <<>>
           /\ calls'[h].nstopped = Len(monitors)
           /\ \A n \in 1..Len(monitors) :
                /\ ~LiveTask(sup'[monitors[n].mon])
                /\ \A j \in MonitorIds :
                     sup'[j].key = monitors[n].key => ~LiveTask(sup'[j])
                /\ states'[monitors[n].key] = NoSnapshot
C11_LockedPart ==
    \A h \in Callers :
      (calls[h].op = "shutdown" /\ ctl_lock.holder = h /\ calls'[h].pc # "idle")
        => monitors' = monitors
C11_ShutdownStopsAll == [][C11_ReturnPart /\ C11_LockedPart]_vars

\* C11 witness: shutdown has returned after stopping two Supervisors.
C11_Witness ==
    \E h \in Callers :
      /\ calls[h].result = "shutdown" /\ calls[h].nstopped = 2
      /\ monitors = <<>> /\ cleanup_task = "done"


(***************************************************************************)
(* SpecSup: one TAppMonitor driven through start() and stop()              *)
(*                                                                         *)
(* One object, built for a direct or a discovered endpoint, and one caller *)
(* that calls start() and stop() on it in any order, one call at a time    *)
(* (as the controller does under its lock), while the loop task runs.      *)
(***************************************************************************)
SupKey == "ns/a"
SupSpecs == {"direct", "pods"}

InitSup ==
    /\ \E sp \in SupSpecs :
         sup = [i \in MonitorIds |->
                  IF i = 1 THEN [NoMonitor EXCEPT !.key = SupKey, !.config = sp]
                  ELSE NoMonitor]
    /\ monitors = <<>>
    /\ calls = [h \in Callers |-> IdleCall]
    /\ ctl_lock = [holder |-> "none", waiters |-> <<>>]
    /\ cleanup_task = "running"
    /\ states = [k \in Keys |-> NoSnapshot]
    /\ quiet = [k \in Keys |-> "no"]
    /\ now = 0
    /\ requests_per_minute = 0
    /\ buckets = <<>>
    /\ acq = <<>>
    /\ win = <<>>
    /\ emit = <<>>
    /\ recent_events = <<>>
    /\ cluster = <<>>
    /\ ret = <<>>
    /\ written = <<>>
    /\ reg = <<>>
    /\ gq = <<>>
    /\ trig = <<>>

NextSup ==
    \/ SupStart("h1", 1)
    \/ \E found \in BOOLEAN : SupDiscovered("h1", found)
    \/ SupStop("h1", 1)
    \/ StopJoined("h1")
    \/ StopClosed("h1")
    \/ \E i \in MonitorIds : LoopFirstRun(i)
    \/ \E i \in MonitorIds, r \in {"unhealthy", "granted", "wait", "denied"} : HealthDone(i, r)
    \/ \E i \in MonitorIds, granted \in BOOLEAN : RateWaitDone(i, granted)
    \/ \E i \in MonitorIds, data \in Payloads : QueryDone(i, data)
    \/ \E i \in MonitorIds : QueryFailed(i)
    \/ \E i \in MonitorIds, created \in BOOLEAN : EmitDone(i, created)
    \/ \E i \in MonitorIds, outcome \in ExecuteOutcomes : ExecDone(i, outcome)
    \/ \E i \in MonitorIds : SleepDone(i)
    \/ \E i \in MonitorIds : TaskCancelled(i)

SpecSup == InitSup /\ [][NextSup]_vars

\* C12: the stop event of a Supervisor is never cleared, and once stop() has
\* been called on it (the event is set) no step of a poll cycle is taken by
\* it: no loop task of it enters or advances through health probe, rate
\* wait, query, event creation or action execution, no query of it succeeds,
\* no cycle outcome is recorded and the store gains no snapshot of its key;
\* a later start() does not change that.
C12_ActPart ==
    \A i \in MonitorIds :
      sup[i].stop_event =>
        /\ sup'[i].stop_event
        /\ sup'[i].monitor_task \in InCycle
             => /\ sup'[i].monitor_task = sup[i].monitor_task
                /\ sup'[i].todo = sup[i].todo
        /\ sup'[i].nsucc = sup[i].nsucc
        /\ sup'[i].last = sup[i].last
        /\ states'[sup[i].key] \in {states[sup[i].key], NoSnapshot}
C12_NoCycleAfterStop == [][C12_ActPart]_vars

\* C12 witness: a Supervisor that had polled was stopped, start() was called
\* on it again and returned after creating a loop task, and that task has
\* ended.
C12_Witness ==
    \E h \in Callers :
      /\ calls[h].result = "sup_started"
      /\ sup[1].stop_event /\ sup[1].nsucc >= 1
      /\ sup[1].monitor_task = "done" /\ sup[1].graphql_monitor

\* A step in which caller h calls start().
SupStartStep(h) ==
    /\ calls[h].pc = "idle" /\ calls'[h] # calls[h]
    /\ \/ calls'[h].op = "sup_start"
       \/ calls'[h].result \in {"already", "sup_started", "sup_nomonitor"}

\* C13: start() on a Supervisor whose loop task is alive returns at once
\* (no pod discovery is begun) and leaves the object as it is: the same
\* task at the same position, the same GraphQLMonitor, and the store
\* untouched.
C13_ActPart ==
    \A h \in Callers :
      (SupStartStep(h) /\ LiveTask(sup[1]))
        => /\ calls'[h].pc = "idle" /\ calls'[h].result = "already"
           /\ sup' = sup /\ states' = states
C13_StartIdempotent == [][C13_ActPart]_vars

\* C13 witness: start() has returned as a no-op on a Supervisor that was
\* never stopped, whose loop is in a state query after a successful one.
C13_Witness ==
    \E h \in Callers :
      /\ calls[h].result = "already"
      /\ ~sup[1].stop_event /\ sup[1].monitor_task = "query" /\ sup[1].nsucc >= 1


(***************************************************************************)
(* SpecStore: the StateManager under any sequence of calls                 *)
(*                                                                         *)
(* update_state, get_current_state and remove_state hold the manager's     *)
(* lock over a body that awaits nothing, so the lock is never found held   *)
(* and a call runs from its first line to its return without suspending:   *)
(* concurrent callers interleave whole calls.  One step is one call, by    *)
(* any caller, on any key, with any of the response data StoreData.        *)
(***************************************************************************)
StoreKeys == {"ns/a", "ns/b"}

\* Response data: the polled field changes its value, its JSON type (1, 1.0,
\* true), appears and disappears; the empty response; a key with a dot.
WithReplicas(v) ==
    (K("app") :> Dict(K("health") :> Str("healthy") @@ K("replicas") :> v))
StoreData ==
    {HealthyData, UnhealthyData, WithReplicas(Num(1)), WithReplicas(Flt(1)),
     WithReplicas(Bool(TRUE)), <<>>, (<<"app", "health">> :> Str("healthy"))}

\* The saturation of the history counter written[k].n.
MaxWrites == 3

NoRet == [op |-> "none", key |-> NoKey, change |-> <<>>,
          snapshot |-> NoSnapshot, removed |-> FALSE]
NoWritten == [data |-> <<>>, n |-> 0]

\* get_current_state: self._states.get(state_key)
get_current_state(st, k) == st[k]

\* The value remove_state returns.
remove_state_result(st, k) == st[k] # NoSnapshot

StoreUpdate(k, data) ==
    /\ ret' = [NoRet EXCEPT !.op = "update", !.key = k,
                            !.change = StateChangeOf(states, k, data)]
    /\ states' = update_state(states, k, data)
    /\ written' = [written EXCEPT ![k] =
                     [data |-> data, n |-> Min(@.n + 1, MaxWrites)]]
    /\ UNCHANGED <<monitors, sup, calls, ctl_lock, cleanup_task, quiet>>
    /\ UNCHANGED <<now, rateVars, emitVars, regVars, unitVars>>

StoreGet(k) ==
    /\ ret' = [NoRet EXCEPT !.op = "get", !.key = k,
                            !.snapshot = get_current_state(states, k)]
    /\ UNCHANGED <<ctlVars, written, now, rateVars, emitVars, regVars, unitVars>>

StoreRemove(k) ==
    /\ ret' = [NoRet EXCEPT !.op = "remove", !.key = k,
                            !.removed = remove_state_result(states, k)]
    /\ states' = remove_state(states, k)
    /\ written' = [written EXCEPT ![k] = NoWritten]
    /\ UNCHANGED <<monitors, sup, calls, ctl_lock, cleanup_task, quiet>>
    /\ UNCHANGED <<now, rateVars, emitVars, regVars, unitVars>>

InitStore ==
    /\ monitors = <<>>
    /\ sup = [i \in MonitorIds |-> NoMonitor]
    /\ calls = [h \in Callers |-> IdleCall]
    /\ ctl_lock = [holder |-> "none", waiters |-> <<>>]
    /\ cleanup_task = "running"
    /\ states = [k \in StoreKeys |-> NoSnapshot]
    /\ quiet = [k \in StoreKeys |-> "no"]
    /\ now = 0
    /\ requests_per_minute = 0
    /\ buckets = <<>>
    /\ acq = <<>>
    /\ win = <<>>
    /\ emit = <<>>
    /\ recent_events = <<>>
    /\ cluster = <<>>
    /\ ret = NoRet
    /\ written = [k \in StoreKeys |-> NoWritten]
    /\ reg = <<>>
    /\ gq = <<>>
    /\ trig = <<>>

NextStore ==
    \/ \E k \in StoreKeys, data \in StoreData : StoreUpdate(k, data)
    \/ \E k \in StoreKeys : StoreGet(k)
    \/ \E k \in StoreKeys : StoreRemove(k)

SpecStore == InitStore /\ [][NextStore]_vars

\* C14 as stated: a non-initial StateChange returned by update_state has no
\* changed field exactly when the checksums of its old and new snapshot are
\* equal.
C14_AsStated ==
    (ret.op = "update" /\ ~is_initial(ret.change))
      => (ret.change.changed_fields = {}
            <=> ret.change.old_snapshot.checksum = ret.change.new_snapshot.checksum)

\* C14 witness: an update from replicas 1 to replicas 1.0 has returned a
\* StateChange whose checksums differ and whose changed fields are empty.
C14_Witness ==
    /\ ret.op = "update"
    /\ ret.change.old_snapshot.data = WithReplicas(Num(1))
    /\ ret.change.new_snapshot.data = WithReplicas(Flt(1))
    /\ ret.change.old_snapshot.checksum # ret.change.new_snapshot.checksum
    /\ ret.change.changed_fields = {} /\ ~has_changes(ret.change)

\* The table of a StateManager that has never been updated.
EmptyStore == [k \in StoreKeys |-> NoSnapshot]

\* C15: whatever updates a key has received since it was last absent, the
\* stored snapshot (which get_current_state returns) has the data and the
\* checksum that the latest of them alone gives on an empty store; a key
\* never updated since has no snapshot; and the update that finds the key
\* absent, and only that one, returns an initial StateChange, which has
\* changes.
C15_LastWriteWins ==
    /\ \A k \in StoreKeys :
         IF written[k].n = 0 THEN states[k] = NoSnapshot
         ELSE /\ states[k] = update_state(EmptyStore, k, written[k].data)[k]
              /\ states[k].data = written[k].data
    /\ ret.op = "get" => ret.snapshot = states[ret.key]
    /\ ret.op = "update" =>
         /\ is_initial(ret.change) <=> written[ret.key].n = 1
         /\ is_initial(ret.change) => has_changes(ret.change)
         /\ ret.change.new_snapshot = states[ret.key]

\* C15 witness: get_current_state has returned the snapshot of a key after
\* three or more updates of it, the other key holding other data.
C15_Witness ==
    \E k, k2 \in StoreKeys :
      /\ ret.op = "get" /\ ret.key = k /\ written[k].n = MaxWrites
      /\ ret.snapshot.data = UnhealthyData
      /\ written[k2].n >= 1 /\ states[k2].data # UnhealthyData

\* C16: every call acts on the table as it is when the call is made: an
\* update returns as old snapshot what was stored for its key (nothing, if
\* nothing was) and stores its new snapshot, a remove returns whether a
\* snapshot was stored and leaves none, a get returns what is stored; no
\* call touches another key.
C16_ActPart ==
    /\ \A k \in StoreKeys : k # ret'.key => states'[k] = states[k]
    /\ ret'.op = "update" =>
         /\ ret'.change.old_snapshot = states[ret'.key]
         /\ states'[ret'.key] = ret'.change.new_snapshot
         /\ states'[ret'.key] # NoSnapshot
    /\ ret'.op = "remove" =>
         /\ ret'.removed <=> states[ret'.key] # NoSnapshot
         /\ states'[ret'.key] = NoSnapshot
    /\ ret'.op = "get" =>
         /\ ret'.snapshot = states[ret'.key]
         /\ states' = states
C16_AtomicReadModifyWrite == [][C16_ActPart]_vars

\* C16 witness: a remove has returned true for a key that had been updated,
\* right after calls on the other key, which holds a snapshot written over
\* an earlier one.
C16_Witness ==
    \E k, k2 \in StoreKeys :
      /\ k # k2 /\ ret.op = "remove" /\ ret.key = k /\ ret.removed
      /\ states[k] = NoSnapshot /\ written[k2].n >= 2


(***************************************************************************)
(* SpecRegistry: ActionRegistry.execute_action                             *)
(*                                                                         *)
(* Callers (the poll loops) call execute_action with a registered or an    *)
(* unregistered name; the handler's can_handle and execute behave in any   *)
(* of the ways CanHandleOutcomes and ExecuteOutcomes.  The registry's lock *)
(* is held over the lookup only, which does not suspend; the call suspends *)
(* in handler.execute.                                                     *)
(***************************************************************************)
RegNames == {"restart_pod", "webhook", "page_oncall"}

\* executed: handler.execute has been invoked by this call (history).
IdleReg == [pc |-> "idle", name |-> "", canh |-> "", outcome |-> "",
            status |-> "none", executed |-> FALSE]

\* execute_action(name, context) up to its return or to handler.execute.
RegExecute(h, name, canh) ==
    /\ reg[h].pc = "idle"
    /\ LET status == execute_action_entry(name, canh)
       IN reg' = [reg EXCEPT ![h] =
                    IF status = "running"
                    THEN [IdleReg EXCEPT !.pc = "exec", !.name = name, !.canh = canh,
                                         !.executed = TRUE]
                    ELSE [IdleReg EXCEPT !.name = name, !.canh = canh,
                                         !.status = status]]
    /\ UNCHANGED <<ctlVars, now, rateVars, emitVars, storeVars, unitVars>>

\* wait_for(handler.execute(context), timeout) is over.
RegExecuteDone(h, outcome) ==
    /\ reg[h].pc = "exec"
    /\ reg' = [reg EXCEPT ![h] = [@ EXCEPT !.pc = "idle", !.outcome = outcome,
                                          !.status = execute_action_exit(outcome)]]
    /\ UNCHANGED <<ctlVars, now, rateVars, emitVars, storeVars, unitVars>>

InitRegistry ==
    /\ InitCtl
    /\ now = 0
    /\ requests_per_minute = 0
    /\ buckets = <<>>
    /\ acq = <<>>
    /\ win = <<>>
    /\ emit = <<>>
    /\ recent_events = <<>>
    /\ cluster = <<>>
    /\ ret = <<>>
    /\ written = <<>>
    /\ reg = [h \in Callers |-> IdleReg]
    /\ gq = <<>>
    /\ trig = <<>>

NextRegistry ==
    \/ \E h \in Callers, name \in RegNames, canh \in CanHandleOutcomes :
         RegExecute(h, name, canh)
    \/ \E h \in Callers, outcome \in ExecuteOutcomes : RegExecuteDone(h, outcome)

SpecRegistry == InitRegistry /\ [][NextRegistry]_vars

\* C17 as stated: execute_action returns failed for an unregistered name;
\* skipped, the handler's execute not invoked, when can_handle is false;
\* failed when can_handle raises; timeout when execute is still running at
\* the timeout; failed when execute raises; and the handler's own result
\* otherwise.
C17_AsStated ==
    \A h \in Callers :
      (reg[h].pc = "idle" /\ reg[h].status # "none") =>
        IF reg[h].name \notin Handlers
        THEN reg[h].status = "failed" /\ ~reg[h].executed
        ELSE CASE reg[h].canh = "false" -> reg[h].status = "skipped" /\ ~reg[h].executed
               [] reg[h].canh \in {"raises", "timeout_error"} ->
                    reg[h].status = "failed" /\ ~reg[h].executed
               [] OTHER ->
                    /\ reg[h].executed
                    /\ reg[h].outcome = "overrun" => reg[h].status = "timeout"
                    /\ reg[h].outcome \in {"raises", "timeout_error"}
                         => reg[h].status = "failed"
                    /\ reg[h].outcome \in HandlerStatuses
                         => reg[h].status = reg[h].outcome

\* C17 witness: a registered handler's execute has raised a TimeoutError of
\* its own and execute_action has returned timeout.
C17_Witness ==
    \E h \in Callers :
      /\ reg[h].pc = "idle" /\ reg[h].name \in Handlers /\ reg[h].canh = "true"
      /\ reg[h].outcome = "timeout_error" /\ reg[h].status = "timeout"


(***************************************************************************)
(* The poll cycle of one Supervisor (SpecSup): action dispatch, event      *)
(* failures, and cycles without a successful query                         *)
(***************************************************************************)
\* The configured actions of the object in slot i, by position.
AllActions(i) == [n \in 1..Len(TAppSpec(sup[i].config).actions) |-> n]

\* The step resumes the loop task of slot i at the await it was suspended
\* in and the task is not being cancelled.
Resumed(i, at) ==
    /\ sup[i].monitor_task = at
    /\ ~sup[i].cancelled /\ ~sup'[i].cancelled
    /\ sup'[i] # sup[i]

\* The step ends a cycle of slot i.
CycleEnds(i) ==
    /\ \E at \in {"health", "rlwait", "query", "emit", "exec"} : Resumed(i, at)
    /\ sup'[i].monitor_task \in {"sleep", "errsleep"}

C18_InvPart ==
    \A i \in MonitorIds :
      /\ sup[i].disp = [n \in 1..Len(sup[i].disp) |-> n]
      /\ Len(sup[i].disp) <= Len(AllActions(i))
      /\ sup[i].monitor_task = "emit" => sup[i].disp = <<>>
      /\ sup[i].monitor_task = "exec" =>
           /\ sup[i].disp # <<>>
           /\ Head(sup[i].todo).idx = sup[i].disp[Len(sup[i].disp)]

C18_ActPart ==
    \A i \in MonitorIds :
      /\ (CycleEnds(i) /\ sup[i].monitor_task \in {"query", "emit", "exec"}
            /\ sup'[i].monitor_task = "sleep")
           => sup'[i].disp = AllActions(i)
      /\ Resumed(i, "exec") =>
           /\ sup'[i].monitor_task \in {"exec", "sleep"}
           /\ sup'[i].monitor_task = "sleep" =>
                sup'[i].last \in {"initial", "changed", "same"}
           /\ sup'[i].monitor_task = "exec" =>
                /\ Len(sup'[i].disp) > Len(sup[i].disp)
                /\ \A n \in 1..Len(sup[i].disp) : sup'[i].disp[n] = sup[i].disp[n]

\* C18: in a cycle whose query succeeded, execute_action is called once
\* for each configured action, in list order (the calls made so far are
\* always 1, 2, .., n, and a cycle that ends has made all k of them),
\* whatever the earlier actions returned or raised; a return from
\* handler.execute, of any kind, leads to the next action or to the
\* interval sleep, never to the error branch of the loop.
C18_EveryActionDispatched == [][C18_ActPart]_vars /\ []C18_InvPart

\* C18 witness: the third of three actions is executing although the
\* second one names a handler that is not registered (failed).
C18_Witness ==
    \E i \in MonitorIds :
      /\ sup[i].config = "pods" /\ sup[i].monitor_task = "exec"
      /\ sup[i].disp = <<1, 2, 3>>
      /\ execute_action_entry(TAppSpec("pods").actions[2].action, "true") = "failed"

C19_ActPart ==
    \A i \in MonitorIds :
      /\ Resumed(i, "emit") =>
           /\ sup'[i].monitor_task \in {"emit", "exec", "sleep"}
           /\ sup'[i].monitor_task = "sleep" =>
                sup'[i].last \in {"initial", "changed"}
      /\ (CycleEnds(i) /\ sup[i].evfail) =>
           /\ sup'[i].monitor_task = "sleep"
           /\ sup'[i].last \in {"initial", "changed"}
           /\ sup'[i].disp = AllActions(i)
      /\ (Resumed(i, "sleep") /\ ~sup[i].stop_event) => sup'[i].monitor_task = "health"

\* C19: a return from create_event, created or raised, leads to the next
\* event, to the actions or to the interval sleep, never to the error
\* branch of the loop; a cycle in which a create_event has failed ends as
\* a successful poll with every configured action dispatched, and the
\* interval sleep that follows leads to the next cycle unless stop was
\* signalled.
C19_EventFailureSwallowed == [][C19_ActPart]_vars

\* C19 witness: an action is executing in a cycle in which a create_event
\* has failed.
C19_Witness ==
    \E i \in MonitorIds :
      sup[i].monitor_task = "exec" /\ sup[i].evfail /\ sup[i].disp # <<>>

C20_ActPart ==
    /\ \A i \in MonitorIds :
         /\ (CycleEnds(i)
               /\ sup'[i].last \in {"rate_limited", "health_check_failed", "error"})
              => /\ states' = states
                 /\ sup[i].monitor_task \in {"health", "rlwait", "query"}
                 /\ sup'[i].disp = sup[i].disp
                 /\ sup'[i].nsucc = sup[i].nsucc
         /\ (sup'[i].monitor_task \in {"emit", "exec"}
               /\ sup[i].monitor_task \notin {"emit", "exec"})
              => /\ sup[i].monitor_task = "query"
                 /\ sup'[i].sc.old_snapshot = states[sup[i].key]
                 /\ sup'[i].sc.new_snapshot = states'[sup[i].key]
    /\ \A k \in Keys :
         (states'[k] # states[k] /\ states'[k] # NoSnapshot) =>
           \E i \in MonitorIds :
             /\ sup[i].key = k /\ Resumed(i, "query")
             /\ sup'[i].nsucc > 0 /\ sup'[i].monitor_task # "errsleep"

\* C20: a cycle that ends as rate_limited, health_check_failed or error
\* ends from the health check, the rate limiter or the state query, so it
\* has attempted no event and called no action, and it leaves the store as
\* it was; a snapshot is stored only in the step of a successful query
\* (stop() removes it), whose StateChange is the diff of the stored
\* snapshot against the new one.
C20_OnlySuccessfulCyclesAct == [][C20_ActPart]_vars

\* C20 witness: a cycle has ended as error after an earlier successful
\* one and the snapshot of the successful one is still stored.
C20_Witness ==
    \E i \in MonitorIds :
      /\ sup[i].monitor_task = "errsleep" /\ sup[i].last = "error"
      /\ sup[i].nsucc > 0 /\ states[sup[i].key] # NoSnapshot


(***************************************************************************)
(* SpecQuery: GraphQLMonitor.query                                         *)
(*                                                                         *)
(* One caller issues query calls, one after the other, on monitors built   *)
(* with max_retries in 0..MaxQueryRetries.  Each request is answered with  *)
(* data or fails in one of the ways QueryErrors.  SpecQueryFair adds that  *)
(* a request ends (the transport has a timeout) and a sleep ends.          *)
(***************************************************************************)
MaxQueryRetries == 3

\* What client.execute_async does: returns the data, or raises
\*   query_error       TransportQueryError, the answer carries "errors"
\*   protocol_error    TransportProtocolError, the answer is malformed
\*   server_error      TransportServerError, an HTTP error status
\*   connection_error  aiohttp.ClientError or a timeout
LogicalErrors == {"query_error", "protocol_error"}
TransportErrors == {"server_error", "connection_error"}
QueryErrors == LogicalErrors \cup TransportErrors

\* A variant of the back-off that grows linearly.
backoff_linear(attempt) == 2 * attempt

\* asyncio.sleep(2 ** attempt)
backoff_seconds(attempt) == 2 ^ attempt

\* "if attempt == self.max_retries: raise", the same in both except
\* clauses: whatever was raised, only the last attempt's error leaves.
reraised(err, attempt, max_retries) == attempt = max_retries

\* attempt is the loop variable of "for attempt in range(max_retries + 1)",
\* errors the exceptions of the failed attempts in order, slept the
\* back-off sleeps begun, sent the requests sent; errors, slept and sent
\* are history of the call.
IdleQuery ==
    [pc |-> "idle", max_retries |-> 0, attempt |-> 0, errors |-> <<>>,
     slept |-> <<>>, sent |-> 0, result |-> "none"]

\* query(query_string): gql() parses the string, which raises for one that
\* is not GraphQL before any request; then the first attempt is sent.
QueryCall(mr, parses) ==
    /\ gq.pc \in {"idle", "returned", "raised"}
    /\ gq' = IF parses
             THEN [IdleQuery EXCEPT !.pc = "request", !.max_retries = mr, !.sent = 1]
             ELSE [IdleQuery EXCEPT !.pc = "raised", !.max_retries = mr,
                                    !.result = "syntax_error"]
    /\ UNCHANGED <<ctlVars, now, rateVars, emitVars, storeVars, regVars, trig>>

\* execute_async returned the data: query returns it.
AttemptSucceeded ==
    /\ gq.pc = "request"
    /\ gq' = [gq EXCEPT !.pc = "returned", !.result = "data"]
    /\ UNCHANGED <<ctlVars, now, rateVars, emitVars, storeVars, regVars, trig>>

\* execute_async raised err: on the last attempt the error is raised again,
\* on an earlier one the call sleeps 2 ** attempt.
AttemptFailed(err) ==
    /\ gq.pc = "request"
    /\ gq' = IF reraised(err, gq.attempt, gq.max_retries)
             THEN [gq EXCEPT !.pc = "raised", !.errors = Append(@, err),
                             !.result = err]
             ELSE [gq EXCEPT !.pc = "backoff", !.errors = Append(@, err),
                             !.slept = Append(@, backoff_seconds(gq.attempt))]
    /\ UNCHANGED <<ctlVars, now, rateVars, emitVars, storeVars, regVars, trig>>

\* The sleep is over: the for loop takes the next attempt, or, the range
\* exhausted, falls through to "raise RuntimeError".
BackoffDone ==
    /\ gq.pc = "backoff"
    /\ gq' = IF gq.attempt + 1 <= gq.max_retries
             THEN [gq EXCEPT !.pc = "request", !.attempt = @ + 1, !.sent = @ + 1]
             ELSE [gq EXCEPT !.pc = "raised", !.result = "runtime_error"]
    /\ UNCHANGED <<ctlVars, now, rateVars, emitVars, storeVars, regVars, trig>>

InitQuery ==
    /\ InitCtl
    /\ now = 0
    /\ requests_per_minute = 0
    /\ buckets = <<>>
    /\ acq = <<>>
    /\ win = <<>>
    /\ emit = <<>>
    /\ recent_events = <<>>
    /\ cluster = <<>>
    /\ ret = <<>>
    /\ written = <<>>
    /\ reg = <<>>
    /\ gq = IdleQuery
    /\ trig = <<>>

NextQuery ==
    \/ \E mr \in 0..MaxQueryRetries, parses \in BOOLEAN : QueryCall(mr, parses)
    \/ AttemptSucceeded
    \/ \E err \in QueryErrors : AttemptFailed(err)
    \/ BackoffDone

SpecQuery == InitQuery /\ [][NextQuery]_vars

SpecQueryFair ==
    /\ SpecQuery
    /\ WF_vars(AttemptSucceeded \/ \E err \in QueryErrors : AttemptFailed(err))
    /\ WF_vars(BackoffDone)

C21_InvPart ==
    /\ gq.sent <= gq.max_retries + 1
    /\ gq.sent = Len(gq.errors) + (IF gq.pc \in {"request", "returned"} THEN 1 ELSE 0)
    /\ gq.slept = [k \in 1..Len(gq.slept) |-> 2 ^ (k - 1)]
    /\ gq.pc \in {"request", "backoff", "returned"} =>
         Len(gq.slept) = Len(gq.errors) /\ Len(gq.errors) <= gq.max_retries
    /\ gq.pc = "backoff" => Len(gq.errors) > 0
    /\ gq.pc = "returned" => gq.result = "data"
    /\ (gq.pc = "raised" /\ gq.sent > 0) =>
         /\ gq.sent = gq.max_retries + 1
         /\ Len(gq.slept) = gq.max_retries
         /\ gq.result = gq.errors[Len(gq.errors)]

C21_ActPart ==
    gq.pc \in {"returned", "raised"} =>
      gq'.sent <= 1 /\ gq'.errors = <<>> /\ gq'.slept = <<>>

\* C21: a query call sends at most max_retries + 1 requests; the sleep
\* after failed attempt k is 2^k seconds and every failed attempt but the
\* last is followed by one; the call raises the last attempt's error after
\* exactly max_retries + 1 failures, returns the data of the first request
\* that succeeds, makes no request after it has returned or raised, and a
\* call under way always returns or raises.
C21_BoundedRetries ==
    /\ []C21_InvPart
    /\ [][C21_ActPart]_vars
    /\ (gq.pc \in {"request", "backoff"}) ~> (gq.pc \in {"returned", "raised"})

\* C21 witness: with three retries configured the call has raised after
\* four failed requests and sleeps of 1, 2 and 4 seconds.
C21_Witness ==
    /\ gq.pc = "raised" /\ gq.max_retries = 3
    /\ gq.sent = 4 /\ gq.slept = <<1, 2, 4>>

\* C22 as stated: a logical error ends the call at once, so it is the
\* call's last error, the call has raised it, and no sleep follows it.
C22_AsStated ==
    \A n \in 1..Len(gq.errors) :
      gq.errors[n] \in LogicalErrors =>
        /\ n = Len(gq.errors)
        /\ gq.pc = "raised"
        /\ Len(gq.slept) = n - 1

\* C22 witness: the call sleeps before a retry after its first request
\* was answered with a query error.
C22_Witness ==
    /\ gq.pc = "backoff" /\ gq.errors = <<"query_error">> /\ gq.slept = <<1>>


(***************************************************************************)
(* SpecTrigger: ActionHandler._evaluate_trigger_condition                  *)
(*                                                                         *)
(* A handler is given the StateChange that update_state returns for a      *)
(* stored snapshot (or none) and a new response, and a trigger; can_handle *)
(* evaluates it.  The responses differ at app.health, at its ancestor app  *)
(* (a dict replaced by a text) and at its descendant app.health.level.     *)
(***************************************************************************)
TrigKey == "ns/a"
HealthLevel(n) == (K("app") :> Dict(K("health") :> Dict(K("level") :> Num(n))))
TrigData ==
    {HealthyData, UnhealthyData, (K("app") :> Str("down")),
     HealthLevel(1), HealthLevel(2), <<>>}

TrigFields == {<<"app">>, <<"app", "health">>, <<"app", "health", "level">>,
               <<"app", "missing">>}
TrigConditions == {"equals", "not_equals", "greater_than", "less_than",
                   "exists", "not_exists"}
TrigValues == {Str("unhealthy"), Num(1), Null}
Triggers == [field : TrigFields, condition : TrigConditions, value : TrigValues]

\* The table with old stored for TrigKey.
StoredAs(old) == [k \in {TrigKey} |-> old]

\* can_handle(context) of a built-in handler returns.
TrigEvaluate ==
    /\ trig.result = "none"
    /\ trig' = [trig EXCEPT !.result =
                  IF can_handle(trig.sc, [trigger |-> trig.trigger,
                                          action |-> "restart_pod"])
                  THEN "true" ELSE "false"]
    /\ UNCHANGED <<ctlVars, now, rateVars, emitVars, storeVars, regVars, gq>>

InitTrigger ==
    /\ InitCtl
    /\ now = 0
    /\ requests_per_minute = 0
    /\ buckets = <<>>
    /\ acq = <<>>
    /\ win = <<>>
    /\ emit = <<>>
    /\ recent_events = <<>>
    /\ cluster = <<>>
    /\ ret = <<>>
    /\ written = <<>>
    /\ reg = <<>>
    /\ gq = <<>>
    /\ \E old \in {NoSnapshot} \cup {StateSnapshotCreate(d) : d \in TrigData},
          new_data \in TrigData, trigger \in Triggers :
         trig = [sc |-> StateChangeOf(StoredAs(old), TrigKey, new_data),
                 trigger |-> trigger, result |-> "none"]

NextTrigger == TrigEvaluate

SpecTrigger == InitTrigger /\ [][NextTrigger]_vars

\* p is a proper prefix of q.
ProperPrefix(p, q) == Len(p) < Len(q) /\ \A n \in 1..Len(p) : p[n] = q[n]

\* C23: for a StateChange that is not initial, a trigger whose field is
\* not a member of changed_fields is evaluated to False, whatever its
\* condition and value, and execute_action returns skipped for it.
C23_UnchangedFieldNeverFires ==
    (trig.result # "none" /\ ~is_initial(trig.sc)
       /\ trig.trigger.field \notin trig.sc.changed_fields)
      => /\ trig.result = "false"
         /\ execute_action_entry("restart_pod", trig.result) = "skipped"

\* C23 witness: the change is reported at an ancestor of the trigger's
\* field, the field itself is not reported, its condition holds on the new
\* data, and the trigger has been evaluated to False.
C23_Witness ==
    /\ trig.result = "false" /\ ~is_initial(trig.sc)
    /\ trig.trigger.field \notin trig.sc.changed_fields
    /\ \E p \in trig.sc.changed_fields : ProperPrefix(p, trig.trigger.field)
    /\ _evaluate_trigger_always(trig.sc, trig.trigger)

\* C23, the descendant case: the change is reported below the trigger's
\* field only and the trigger, whose condition holds, is evaluated False.
C23_WitnessDescendant ==
    /\ trig.result = "false" /\ ~is_initial(trig.sc)
    /\ trig.trigger.field \notin trig.sc.changed_fields
    /\ \E p \in trig.sc.changed_fields : ProperPrefix(trig.trigger.field, p)
    /\ _evaluate_trigger_always(trig.sc, trig.trigger)


(***************************************************************************)
(* start_monitoring with a spec that TAppConfig rejects (Spec)             *)
(***************************************************************************)
\* create_targetapp: the status it returns to kopf, given how
\* start_monitoring ended.
create_targetapp_status(res) ==
    IF res = "raised"
    THEN [state |-> "Failed", lastError |-> "Failed to start monitoring"]
    ELSE [state |-> "Monitoring", lastError |-> "none"]

\* pollingInterval outside [5, 3600] or timeout outside [1, 60].
OutOfRange(spec) ==
    \/ spec.pollingInterval \notin 5..3600
    \/ spec.timeout \notin 1..60

\* The step in which caller h's start_monitoring, given a spec that is out
\* of range, leaves the locked section.
InvalidStartEnds(h) ==
    /\ calls[h].pc = "lock" /\ calls[h].phase = "start"
    /\ calls'[h].pc # "lock"
    /\ OutOfRange(TAppSpec(calls[h].spec))

\* What C24 says of such a step.
RaisedNothingChanged(h) ==
    /\ calls'[h].pc = "idle" /\ calls'[h].result = "raised"
    /\ create_targetapp_status(calls'[h].result).state = "Failed"
    /\ create_targetapp_status(calls'[h].result).lastError # "none"
    /\ monitors' = monitors /\ sup' = sup /\ states' = states

PairSpecs == {"direct"}
PairPayloads == {UnhealthyData}
PairKeyOf(h) == IF h = "h1" THEN "ns/a" ELSE "ns/b"

NextPair ==
    \/ \E h \in Callers, sp \in PairSpecs : CallStart(h, PairKeyOf(h), sp)
    \/ \E h \in Callers : CallStop(h, PairKeyOf(h))
    \/ \E h \in Callers : StartLocked(h)
    \/ \E h \in Callers : StopLocked(h)
    \/ \E h \in Callers : StopJoined(h)
    \/ \E h \in Callers : StopClosed(h)
    \/ \E i \in MonitorIds : LoopFirstRun(i)
    \/ \E i \in MonitorIds, r \in {"unhealthy", "granted"} : HealthDone(i, r)
    \/ \E i \in MonitorIds, data \in PairPayloads : QueryDone(i, data)
    \/ \E i \in MonitorIds : QueryFailed(i)
    \/ \E i \in MonitorIds : EmitDone(i, TRUE)
    \/ \E i \in MonitorIds, outcome \in {"success"} : ExecDone(i, outcome)
    \/ \E i \in MonitorIds : SleepDone(i)
    \/ \E i \in MonitorIds : TaskCancelled(i)

SpecPair == InitFleet /\ [][NextPair]_vars

\* The registry entries and the objects of the keys other than k.
OthersOf(m, k) == SelectSeq(m, LAMBDA e : e.key # k)

\* Caller h's stop_monitoring takes a step.
StopCallSteps(h) ==
    /\ calls[h].op = "stop" /\ calls[h].pc \in {"lock", "join", "close"}
    /\ calls'[h].pc # calls[h].pc

C25_ActPart ==
    \A h \in Callers :
      StopCallSteps(h) =>
        LET k == calls[h].key
        IN /\ OthersOf(monitors', k) = OthersOf(monitors, k)
           /\ \A i \in MonitorIds : sup[i].key \notin {k, NoKey} => sup'[i] = sup[i]
           /\ \A k2 \in FleetKeys \ {k} : states'[k2] = states[k2]
           /\ IF calls[h].pc = "lock"
              THEN IF EntriesOf(k) = {}
                   THEN /\ monitors' = monitors /\ sup' = sup /\ states' = states
                        /\ calls'[h].result = "notfound"
                   ELSE /\ Len(monitors') = Len(monitors) - 1
                        /\ ~KeyRegistered(monitors', k)
              ELSE monitors' = monitors

\* C25: no step of stop_monitoring(k) changes the registry entry, the
\* Supervisor (its loop position included) or the snapshot of another
\* key; the step under the lock removes exactly the entry of k, so that
\* the number of monitors drops by one, or, k not registered, changes
\* nothing at all.
C25_StopAffectsOneKey == [][C25_ActPart]_vars

\* C25 witness: stop_monitoring of one key has returned while the other
\* key is registered, its loop asleep between cycles, its snapshot stored.
C25_Witness ==
    \E h \in Callers, n \in 1..Len(monitors) :
      /\ calls[h].result = "stopped" /\ monitors[n].key # PairKeyOf(h)
      /\ Len(monitors) = 1
      /\ sup[monitors[n].mon].monitor_task = "sleep"
      /\ states[monitors[n].key] # NoSnapshot
      /\ states[PairKeyOf(h)] = NoSnapshot

\* C27 as stated: stop() of the popped Supervisor runs with the
\* controller's lock released.
C27_AsStated ==
    \A h \in Callers :
      (calls[h].phase = "stop" /\ calls[h].pc \in {"join", "close"})
        => ctl_lock.holder # h

\* C27 witness: a stop_monitoring awaits the cancelled loop task of its
\* Supervisor with the lock held, and a start_monitoring for the other key
\* waits for the lock.
C27_Witness ==
    \E h \in Callers, g \in Callers :
      /\ calls[h].phase = "stop" /\ calls[h].pc = "join" /\ ctl_lock.holder = h
      /\ calls[g].phase = "start" /\ calls[g].pc = "lock"
      /\ calls[g].key # calls[h].key
      /\ g \in {ctl_lock.waiters[n] : n \in 1..Len(ctl_lock.waiters)}


(***************************************************************************)
(* A Supervisor whose pod discovery failed (Spec)                          *)
(***************************************************************************)
\* Slot i holds a registered Supervisor whose start() built no
\* GraphQLMonitor and created no loop task.
RegisteredIdle(i) ==
    /\ Registered(monitors, i)
    /\ sup[i].monitor_task = "none" /\ ~sup[i].graphql_monitor

C26_ReturnPart ==
    \A h \in Callers :
      (calls[h].pc = "disc" /\ calls[h].phase = "start" /\ calls'[h].pc # "disc")
        => LET i == calls[h].mon
           IN /\ calls'[h].pc = "idle"
              /\ calls'[h].result \in {"started", "updated"}
              /\ Registered(monitors', i) /\ Len(monitors') = Len(monitors) + 1
              /\ \/ sup'[i].monitor_task = "new" /\ sup'[i].graphql_monitor
                 \/ sup'[i].monitor_task = "none" /\ ~sup'[i].graphql_monitor

C26_StuckPart ==
    \A i \in MonitorIds :
      RegisteredIdle(i) =>
        \/ sup'[i] = sup[i] /\ states'[sup[i].key] = states[sup[i].key]
        \/ ~Registered(monitors', i)

\* C26: start_monitoring registers the Supervisor whether pod discovery
\* found a usable pod or not; without one the Supervisor has no
\* GraphQLMonitor and no loop task, and as long as it is registered nothing
\* changes it and nothing stores a snapshot for its key: it has made no
\* query and makes none until stop_monitoring or update_monitoring removes
\* it.
C26_DiscoveryFailureRegisters ==
    /\ [][C26_ReturnPart /\ C26_StuckPart]_vars
    /\ [](\A i \in MonitorIds :
            RegisteredIdle(i) => sup[i].nsucc = 0 /\ states[sup[i].key] = NoSnapshot)

\* C26 witness: start_monitoring has returned normally and the registered
\* Supervisor, whose endpoint needs discovery, has no loop.
C26_Witness ==
    \E h \in Callers, i \in MonitorIds :
      /\ calls[h].result = "started" /\ RegisteredIdle(i)
      /\ ~IsDirectUrl(TAppSpec(sup[i].config))
      /\ Len(monitors) = 1


(***************************************************************************)
(* The order of the calls of a poll cycle (SpecSup)                        *)
(***************************************************************************)
CycleOrder == <<"health", "acquire", "query", "update", "emit", "dispatch">>
Rank(x) == CHOOSE n \in 1..Len(CycleOrder) : CycleOrder[n] = x

C28_InvPart ==
    \A i \in MonitorIds :
      LET st == sup[i].steps
          s == sup[i]
      IN /\ \A n \in 1..Len(st) : \E m \in 1..Len(CycleOrder) : CycleOrder[m] = st[n]
         /\ \A n \in 1..(Len(st) - 1) : Rank(st[n]) < Rank(st[n + 1])
         /\ \A n \in 1..Len(st) : n <= 4 => st[n] = CycleOrder[n]
         /\ s.monitor_task = "health" => st = <<"health">>
         /\ s.monitor_task = "rlwait" => st = <<"health", "acquire">>
         /\ s.monitor_task = "query" => st = <<"health", "acquire", "query">>
         /\ s.monitor_task = "emit" =>
              st = <<"health", "acquire", "query", "update", "emit">>
         /\ s.monitor_task = "exec" => Len(st) > 4 /\ st[Len(st)] = "dispatch"
         /\ s.monitor_task = "errsleep" => st = <<"health", "acquire", "query">>
         /\ (s.monitor_task = "sleep" /\ s.last = "health_check_failed")
              => st = <<"health">>
         /\ (s.monitor_task = "sleep" /\ s.last = "rate_limited")
              => st = <<"health", "acquire">>
         /\ (s.monitor_task = "sleep" /\ s.last \in {"initial", "changed", "same"})
              => Len(st) >= 4

\* C28: the calls of a cycle are made in the order health check, acquire,
\* state query, update_state, event generation, action dispatch, each at
\* most once; the first four without a gap, so that acquire is called only
\* after a health check that passed, the query only after acquire granted
\* and update_state only after the query returned; while the health check
\* is in flight acquire has not been called, a cycle that ends as
\* health_check_failed has called nothing but the health check and one
\* that ends as rate_limited nothing but the health check and acquire.
C28_CycleOrder == []C28_InvPart

\* C28 witness: a cycle has ended after making all six calls in order.
C28_Witness ==
    \E i \in MonitorIds :
      sup[i].monitor_task = "sleep" /\ sup[i].steps = CycleOrder

(***************************************************************************)
(* SpecSupFair: one Supervisor whose timers expire and whose tasks run     *)
(***************************************************************************)
\* The event loop runs every task that is ready: the timeout of a wait_for
\* expires, a cancelled task is resumed with its CancelledError, the awaiter
\* of a finished task is resumed, and transport.close() returns.
SpecSupFair ==
    /\ SpecSup
    /\ WF_vars(\E i \in MonitorIds : SleepDone(i))
    /\ WF_vars(\E i \in MonitorIds : TaskCancelled(i))
    /\ WF_vars(StopJoined("h1"))
    /\ WF_vars(StopClosed("h1"))

\* The Supervisor's loop task is suspended in the wait that ends a cycle.
Sleeping(s) == s.monitor_task \in {"sleep", "errsleep"}

\* C29: the poll loop never ends on its own.  A loop task ends only when the
\* stop event of its Supervisor is set; the wait after a cycle that ended as
\* success (initial, changed or same state), health_check_failed or
\* rate_limited has the timeout
\* pollingInterval and the wait after a cycle that ended as error has the
\* timeout min(30, pollingInterval); and from every such wait, the next cycle
\* eventually begins (the health check is called) unless stop is signalled.
C29_EndsOnlyOnStop ==
    \A i \in MonitorIds :
      (LiveTask(sup[i]) /\ sup'[i].monitor_task = "done") => sup[i].stop_event
C29_Timeouts ==
    \A i \in MonitorIds :
      LET interval == TAppSpec(sup[i].config).pollingInterval
      IN /\ sup[i].monitor_task = "sleep"
              => /\ sup[i].sleep_timeout = interval
                 /\ sup[i].last \in {"initial", "changed", "same",
                                     "health_check_failed", "rate_limited"}
         /\ sup[i].monitor_task = "errsleep"
              => /\ sup[i].sleep_timeout = (IF interval > 30 THEN 30 ELSE interval)
                 /\ sup[i].last = "error"
C29_LoopNeverEndsOnItsOwn ==
    /\ []C29_Timeouts
    /\ [][C29_EndsOnlyOnStop]_vars
    /\ \A i \in MonitorIds :
         Sleeping(sup[i]) ~> (sup[i].monitor_task = "health" \/ sup[i].stop_event)

\* C29 witness: after a cycle that ended as error, with a pollingInterval
\* above 30, the next cycle has begun and stop has not been signalled.
C29_Witness ==
    /\ sup[1].monitor_task = "health" /\ sup[1].last = "error"
    /\ ~sup[1].stop_event
    /\ TAppSpec(sup[1].config).pollingInterval > 30

\* C30: stop() always terminates and does not wait out a sleep.  From the
\* moment stop() has cancelled the loop task, wherever the task is suspended
\* (interval sleep, error back-off, rate-limit wait, or a health check or
\* query with its retry back-off), the only step the task takes is its end;
\* and stop() eventually returns, with the task gone, the GraphQL client
\* closed and the snapshot of the key removed.
C30_Interrupted ==
    \A i \in MonitorIds :
      (LiveTask(sup[i]) /\ sup[i].cancelled /\ sup'[i] # sup[i])
        => /\ sup'[i].monitor_task = "done"
           /\ states' = states
C30_StopTerminates ==
    /\ [][C30_Interrupted]_vars
    /\ \A h \in Callers :
         (calls[h].op = "sup_stop" /\ calls[h].pc = "join")
           ~> /\ calls[h].pc = "idle" /\ calls[h].result = "sup_stopped"
              /\ sup[1].monitor_task = "none"
              /\ ~sup[1].graphql_monitor /\ ~sup[1].transport
              /\ states[sup[1].key] = NoSnapshot

\* C30 witness: stop() was called while the loop was in its error back-off
\* wait; the task is cancelled and stop() awaits it.
C30_Witness ==
    \E h \in Callers :
      /\ calls[h].op = "sup_stop" /\ calls[h].pc = "join"
      /\ sup[1].monitor_task = "errsleep" /\ sup[1].cancelled
      /\ sup[1].sleep_timeout > 0

(***************************************************************************)
(* SpecAcquire: when RateLimiter.acquire suspends and what it returns      *)
(*                                                                         *)
(* The limiter of SpecRate without the observation window.                 *)
(***************************************************************************)
NextAcquire ==
    \/ \E h \in Callers, k \in Keys, n \in AcquireTokens, timeout \in AcquireTimeouts :
         Acquire(h, k, n, timeout)
    \/ \E h \in Callers : AcquireWake(h)
    \/ RateTick

SpecAcquire == InitRate /\ [][NextAcquire]_vars

\* The tokens (in sixtieths) a consume at time t finds in the bucket of key
\* k after its refill; a bucket that does not exist is created full.
Available(k, t) ==
    IF buckets[k] = NoBucket
    THEN TokenUnit * (IF requests_per_minute \div 6 > 10
                      THEN requests_per_minute \div 6 ELSE 10)
    ELSE LET b == buckets[k]
             refilled == b.tokens + (t - b.last_refill) * b.refill_rate
         IN IF refilled > TokenUnit * b.capacity THEN TokenUnit * b.capacity
            ELSE refilled

\* What a call acquire(k, n, timeout) by h has done in this step, given the
\* tokens it found: returned true, returned false, or suspended.
C31_CallPart ==
    \A h \in Callers, k \in Keys, n \in AcquireTokens, timeout \in AcquireTimeouts :
      Acquire(h, k, n, timeout) =>
        LET avail == Available(k, now)
            need == TokenUnit * n
        IN /\ avail >= need
                => acq'[h].pc = "idle" /\ acq'[h].result = "true" /\ ~acq'[h].waited
           /\ (avail < need /\ timeout = 0)
                => acq'[h].pc = "idle" /\ acq'[h].result = "false" /\ ~acq'[h].waited
           /\ (avail < need /\ timeout > 0
                 /\ need - avail > timeout * requests_per_minute)
                => acq'[h].pc = "idle" /\ acq'[h].result = "false" /\ ~acq'[h].waited
           /\ (avail < need /\ timeout > 0
                 /\ need - avail <= timeout * requests_per_minute)
                => /\ acq'[h].pc = "sleep" /\ ~acq'[h].waited
                   /\ acq'[h].wait = need - avail
                   /\ buckets'[k].tokens = avail

\* The step of a suspended call: it returns, after one consume.
C31_WakePart ==
    \A h \in Callers :
      (acq[h].pc = "sleep" /\ acq'[h] # acq[h]) =>
        LET k == acq[h].key
            avail == Available(k, now)
            need == TokenUnit * acq[h].tokens
        IN /\ acq'[h].pc = "idle" /\ acq'[h].waited
           /\ acq'[h].result = (IF avail >= need THEN "true" ELSE "false")
           /\ buckets'[k].last_refill = now
           /\ buckets'[k].tokens = (IF avail >= need THEN avail - need ELSE avail)

\* While the clock stands at 0 every bucket was created full at 0 and holds
\* a whole number of tokens: a call for one token has failed only on an
\* empty bucket, that is, after capacity tokens were granted.
C31_FullBucketPart ==
    \A h \in Callers :
      (now = 0 /\ acq[h].result = "false" /\ acq[h].tokens = 1)
        => buckets[acq[h].key].tokens = 0

\* C31: acquire with timeout absent or zero never suspends and returns true
\* iff, after the refill, the bucket holds at least n tokens (from a full
\* bucket with no time elapsed, calls for one token fail only once capacity
\* tokens are gone).  With a positive timeout, a call whose immediate
\* attempt failed returns false without suspending when the wait
\* (n - tokens) / refill_rate exceeds the timeout, and otherwise suspends
\* once and then makes exactly one further consume, whose outcome it returns.
C31_AcquireSuspendsOnce ==
    /\ [][C31_CallPart /\ C31_WakePart]_vars
    /\ []C31_FullBucketPart

\* C31 witness: with no time elapsed, the whole capacity of a bucket is
\* gone, the last successful call took the last token, and a further call
\* for one token has returned false without waiting.
C31_Witness ==
    /\ now = 0
    /\ \E h, g \in Callers :
         /\ acq[h].result = "false" /\ acq[h].tokens = 1 /\ ~acq[h].waited
         /\ acq[g].result = "true" /\ acq[g].tokens = 1 /\ acq[g].key = acq[h].key
         /\ buckets[acq[h].key].tokens = 0

\* C31 witness of the wait: a call with a positive timeout has returned
\* after its one suspension.
C31_WitnessWaited ==
    \E h \in Callers : acq[h].waited /\ acq[h].result = "false" /\ now > 0

(***************************************************************************)
(* The sweep of the deduplication cache (SpecEmit)                         *)
(***************************************************************************)
\* What an emit attempt of task t for event e has done in this step.
C32_AttemptPart ==
    \A t \in Emitters, e \in EmitEvents :
      EmitAttempt(t, e) =>
        LET seen == recent_events[e.key]
        IN /\ \A key \in EventKeys :
                recent_events'[key] # -1 => now - recent_events'[key] <= DedupWindow
           /\ (seen = -1 \/ now - seen > DedupWindow)
                => /\ emit'[t].pc = "create" /\ emit'[t].ev = e
                   /\ recent_events'[e.key] = now
           /\ (seen # -1 /\ now - seen <= DedupWindow)
                => /\ emit'[t].pc = "idle"
                   /\ recent_events'[e.key] = seen

\* The timestamp of a cached key is the time of the attempt that was let
\* through, however many attempts were suppressed since.
C32_NotRefreshedPart ==
    \A key \in EventKeys :
      recent_events[key] # -1 =>
        /\ recent_events[key] = cluster[key].first
        /\ cluster[key].calls = 1

\* C32: the dedup cache is swept on every emit attempt: after an attempt it
\* holds no entry older than 5 minutes, and an attempt for a key recorded
\* more than 5 minutes ago (or never) is let through to create_event and
\* recorded with the current time.  A suppressed attempt leaves the entry's
\* timestamp as it was, so the entry's timestamp is always that of the
\* attempt that was let through and a key that keeps being emitted is let
\* through again by the first attempt made after the 5 minutes.
C32_SweptEveryAttempt ==
    /\ [][C32_AttemptPart]_vars
    /\ []C32_NotRefreshedPart

\* C32 witness: a key was let through, and more than 5 minutes after it
\* was recorded an attempt for the same key has been let through again and
\* recorded with the current time (the first create_event call is still in
\* flight).
C32_Witness ==
    \E t1, t2 \in Emitters :
      /\ emit[t1].pc = "create" /\ emit[t2].pc = "create"
      /\ emit[t1].ev.key = emit[t2].ev.key
      /\ emit[t2].at = now /\ now - emit[t1].at > DedupWindow
      /\ recent_events[emit[t2].ev.key] = now

(***************************************************************************)
(* SpecDiff: StateManager._find_changed_fields on pairs of response data   *)
(*                                                                         *)
(* The function is applied to every pair of DiffData: scalars that change, *)
(* change their JSON type or become a dict, nested dicts, arrays, keys     *)
(* present on one side only with more below them.                          *)
(***************************************************************************)
DiffSegments == {"a", "b", "c"}
DiffData ==
    {<<>>,
     K("a") :> Num(1),
     K("a") :> Num(2),
     K("a") :> Flt(1),
     K("a") :> Dict(K("b") :> Num(1)),
     K("a") :> Dict(K("b") :> Num(2)),
     K("a") :> Dict(K("b") :> Num(1) @@ K("c") :> List(<<Num(1), Num(2)>>)),
     K("a") :> Dict(K("b") :> Num(1) @@ K("c") :> List(<<Num(1), Num(3)>>)),
     K("a") :> Dict(K("b") :> Dict(K("c") :> Num(1))),
     K("a") :> Dict(K("b") :> Dict(K("c") :> Num(2))),
     K("a") :> Dict(K("b") :> Dict(K("c") :> Num(1))) @@ K("b") :> Str("x"),
     K("b") :> Dict(K("c") :> Num(1))}

NoDiff == [op |-> "none", old_data |-> <<>>, new_data |-> <<>>, changed_fields |-> {}]

\* A call _find_changed_fields(old_data, new_data) and what it returns.
DiffCall(old_data, new_data) ==
    /\ ret' = [op |-> "diff", old_data |-> old_data, new_data |-> new_data,
               changed_fields |-> _find_changed_fields(old_data, new_data, <<>>)]
    /\ UNCHANGED <<ctlVars, written, now, rateVars, emitVars, regVars, unitVars>>

InitDiff ==
    /\ InitCtl
    /\ now = 0
    /\ requests_per_minute = 0
    /\ buckets = <<>>
    /\ acq = <<>>
    /\ win = <<>>
    /\ emit = <<>>
    /\ recent_events = <<>>
    /\ cluster = <<>>
    /\ ret = NoDiff
    /\ written = <<>>
    /\ reg = <<>>
    /\ gq = <<>>
    /\ trig = <<>>

NextDiff == \E old_data \in DiffData, new_data \in DiffData : DiffCall(old_data, new_data)

SpecDiff == InitDiff /\ [][NextDiff]_vars

\* The node of a value at a path of key segments, Missing if there is none.
Missing == [t |-> "missing", v |-> "missing"]
RECURSIVE NodeAt(_, _)
NodeAt(x, p) ==
    IF p = <<>> THEN x
    ELSE IF IsDict(x) /\ <<Head(p)>> \in DOMAIN x.v
    THEN NodeAt(x.v[<<Head(p)>>], Tail(p))
    ELSE Missing

\* The paths of up to three segments.
DiffPaths ==
    UNION {[1..n -> DiffSegments] : n \in 1..3}

\* Path p is a shallowest differing node of old and new: every node above
\* it is a dict on both sides, and the node itself is on one side only, or
\* is on both, not a dict on both, and unequal.
Shallowest(old_data, new_data, p) ==
    LET o == NodeAt(Dict(old_data), p)
        n == NodeAt(Dict(new_data), p)
    IN /\ \A m \in 1..(Len(p) - 1) :
            /\ IsDict(NodeAt(Dict(old_data), SubSeq(p, 1, m)))
            /\ IsDict(NodeAt(Dict(new_data), SubSeq(p, 1, m)))
       /\ \/ (o = Missing) # (n = Missing)
          \/ /\ o # Missing /\ n # Missing
             /\ ~(IsDict(o) /\ IsDict(n))
             /\ ~PyEq(o, n)

\* C33: _find_changed_fields(old, new) returns exactly the paths of the
\* shallowest differing nodes: the path of a key present on one side only
\* and nothing below it, for a key whose values are dicts on both sides
\* only what the recursion into it finds, and for any other key its path
\* iff the two values are unequal (arrays as wholes); so the result for
\* equal data is empty.
C33_ShallowestDiffering ==
    ret.op = "diff" =>
      /\ ret.changed_fields =
           {p \in DiffPaths : Shallowest(ret.old_data, ret.new_data, p)}
      /\ ret.old_data = ret.new_data => ret.changed_fields = {}

\* C33 witness: two responses that differ in one element of a nested array
\* give exactly the path of the array.
C33_Witness ==
    /\ ret.op = "diff"
    /\ NodeAt(Dict(ret.old_data), <<"a", "c">>) = List(<<Num(1), Num(2)>>)
    /\ NodeAt(Dict(ret.new_data), <<"a", "c">>) = List(<<Num(1), Num(3)>>)
    /\ ret.changed_fields = {<<"a", "c">>}

(***************************************************************************)
(* SpecEvents: the events EventGenerator attempts for a StateChange        *)
(*                                                                         *)
(* generate_state_change_event is given the StateChange that update_state  *)
(* returns for a stored response (or none) and a new one; the changed      *)
(* fields are iterated in any order.  Deduplication is left out: the       *)
(* attempts are what the generator asks _should_create_event for.          *)
(***************************************************************************)
EventsKey == "ns/a"

\* Responses: the warning words as a leaf name, as a component above the
\* leaf, and as a part of the leaf name; critical leaves; a plain leaf.
EventData ==
    {HealthyData,
     UnhealthyData,
     K("app") :> Dict(K("health") :> Str("healthy") @@ K("status") :> Str("down")),
     K("app") :> Dict(K("health") :> Str("healthy") @@ K("status") :> Str("ok")),
     K("health") :> Dict(K("detail") :> Str("down")),
     K("health") :> Dict(K("detail") :> Str("ok")),
     K("healthcheck") :> Str("failed"),
     K("healthcheck") :> Str("ok"),
     K("app") :> Dict(K("error") :> Str("error") @@ K("errors") :> Num(2)),
     K("app") :> Dict(K("replicas") :> Num(1)),
     K("app") :> Dict(K("replicas") :> Num(2))}

NoGenerate == [op |-> "none", sc |-> <<>>, attempts |-> <<>>]

\* The store holds nothing (first) or the response old, update_state is
\* given new_data, and generate_state_change_event the StateChange it
\* returns.
Generate(first, old, new_data) ==
    LET st == (EventsKey :> (IF first THEN NoSnapshot ELSE StateSnapshotCreate(old)))
        sc == StateChangeOf(st, EventsKey, new_data)
    IN /\ \E o \in Orders(sc.changed_fields) :
            emit' = [op |-> "generate", sc |-> sc, attempts |-> EventAttempts(sc, o)]
       /\ UNCHANGED <<recent_events, cluster>>
       /\ UNCHANGED <<ctlVars, now, rateVars, storeVars, regVars, unitVars>>

InitEvents ==
    /\ InitCtl
    /\ now = 0
    /\ requests_per_minute = 0
    /\ buckets = <<>>
    /\ acq = <<>>
    /\ win = <<>>
    /\ emit = NoGenerate
    /\ recent_events = <<>>
    /\ cluster = <<>>
    /\ ret = <<>>
    /\ written = <<>>
    /\ reg = <<>>
    /\ gq = <<>>
    /\ trig = <<>>

NextEvents ==
    \E first \in BOOLEAN, old \in EventData, new_data \in EventData :
      Generate(first, old, new_data)

SpecEvents == InitEvents /\ [][NextEvents]_vars

\* The last component of a changed path.
LeafName(field) == field[Len(field)]

\* The new value at a changed path, stringified, contains one of error,
\* failed, unhealthy, down.
BadNewValue(sc, field) ==
    LET shown == _get_field_value(Dict(sc.new_snapshot.data), field)
    IN KeywordsIn(shown) \cap {"error", "failed", "unhealthy", "down"} # {}

\* C34 as stated: the summary event of a non-initial change is a Warning if
\* and only if some changed path has a leaf name among health, status,
\* error, errors, failed, failure and a new value that contains one of
\* error, failed, unhealthy, down; a warning word in a component above the
\* leaf, or as a part of the leaf name, does not make it a Warning.
C34_AsStated ==
    (emit.op = "generate" /\ ~is_initial(emit.sc) /\ has_changes(emit.sc))
      => (emit.attempts[1].type = "Warning"
            <=> \E field \in emit.sc.changed_fields :
                  /\ LeafName(field) \in {"health", "status", "error", "errors",
                                          "failed", "failure"}
                  /\ BadNewValue(emit.sc, field))

\* C34 witness: the only changed path is health.detail, whose leaf name is
\* not a warning word, the new value is "down", and the summary event is a
\* Warning.
C34_Witness ==
    /\ emit.op = "generate" /\ ~is_initial(emit.sc)
    /\ emit.sc.changed_fields = {<<"health", "detail">>}
    /\ _get_field_value(Dict(emit.sc.new_snapshot.data), <<"health", "detail">>) = "down"
    /\ emit.attempts[1].reason = "StateFieldChanged"
    /\ emit.attempts[1].type = "Warning"

\* The changed paths that get an event of their own.
CriticalFields(sc) ==
    {field \in sc.changed_fields : LeafName(field) \in {"health", "status", "error", "errors"}}

\* C35: deduplication aside, one generate_state_change_event attempts, for
\* an initial change, exactly one event, InitialStateDetected of type
\* Normal; and for a non-initial change with changes exactly one summary
\* event, StateFieldChanged iff exactly one path changed and StateChanged
\* otherwise, followed by exactly one event for each changed path whose
\* leaf name is health, status, error or errors, with the reason
\* HealthStatusChanged, StatusChanged, ErrorStateChanged or ErrorsDetected,
\* and by none for any other path.
C35_EventsPerChange ==
    emit.op = "generate" =>
      LET sc == emit.sc
          a == emit.attempts
      IN /\ is_initial(sc)
              => /\ Len(a) = 1
                 /\ a[1].reason = "InitialStateDetected" /\ a[1].type = "Normal"
         /\ (~is_initial(sc) /\ sc.changed_fields # {})
              => /\ Len(a) = 1 + Cardinality(CriticalFields(sc))
                 /\ a[1].reason = (IF Cardinality(sc.changed_fields) = 1
                                   THEN "StateFieldChanged" ELSE "StateChanged")
                 /\ \A field \in CriticalFields(sc) :
                      Cardinality({n \in 2..Len(a) : a[n].key[3][2] = field}) = 1
                 /\ \A n \in 2..Len(a) :
                      LET field == a[n].key[3][2]
                      IN /\ field \in CriticalFields(sc)
                         /\ a[n].reason =
                              (CASE LeafName(field) = "health" -> "HealthStatusChanged"
                                 [] LeafName(field) = "status" -> "StatusChanged"
                                 [] LeafName(field) = "error" -> "ErrorStateChanged"
                                 [] LeafName(field) = "errors" -> "ErrorsDetected")

\* C35 witness: three paths changed, app.error and app.errors (removed)
\* and app.replicas (added); the summary is StateChanged and two per-field
\* events follow, ErrorStateChanged and ErrorsDetected.
C35_Witness ==
    /\ emit.op = "generate" /\ ~is_initial(emit.sc)
    /\ Cardinality(emit.sc.changed_fields) = 3
    /\ <<"app", "replicas">> \in emit.sc.changed_fields
    /\ Len(emit.attempts) = 3
    /\ emit.attempts[1].reason = "StateChanged"
    /\ {emit.attempts[2].reason, emit.attempts[3].reason}
         = {"ErrorStateChanged", "ErrorsDetected"}

(***************************************************************************)
(* greater_than and less_than on values that are no numbers (SpecTrigger)  *)
(***************************************************************************)
\* The trigger's condition was evaluated: the change is initial or reports
\* the trigger's field.
TrigReached ==
    /\ trig.result # "none"
    /\ is_initial(trig.sc) \/ trig.trigger.field \in trig.sc.changed_fields

\* The value the trigger's field has in the new data.
TrigCurrent == _get_nested_value(Dict(trig.sc.new_snapshot.data), trig.trigger.field)

\* C36 as stated: a greater_than or less_than trigger whose condition is
\* evaluated gives False whenever the current value of its field or its
\* own value is absent or no number, and otherwise the comparison of the
\* two numbers.
C36_AsStated ==
    (TrigReached /\ trig.trigger.condition \in {"greater_than", "less_than"})
      => trig.result =
           (IF IsNumber(TrigCurrent) /\ IsNumber(trig.trigger.value)
            THEN (IF trig.trigger.condition = "greater_than"
                  THEN (IF TrigCurrent.v > trig.trigger.value.v THEN "true" ELSE "false")
                  ELSE (IF TrigCurrent.v < trig.trigger.value.v THEN "true" ELSE "false"))
            ELSE "false")

\* C36 witness: the trigger's field is absent from the first response and
\* the trigger "less_than 1" on it has been evaluated to True.
C36_Witness ==
    /\ trig.result = "true" /\ is_initial(trig.sc)
    /\ trig.trigger.condition = "less_than" /\ trig.trigger.value = Num(1)
    /\ trig.trigger.field = <<"app", "missing">>
    /\ TrigCurrent = Null

(***************************************************************************)
(* The actions of an initial poll (Spec)                                   *)
(***************************************************************************)
\* The condition of a trigger of the configured specs on response data,
\* whatever has changed.
ConditionOnData(data, trigger) ==
    LET v == _get_nested_value(Dict(data), trigger.field)
    IN CASE trigger.condition = "equals" -> PyEq(v, trigger.value)
         [] trigger.condition = "not_equals" -> ~PyEq(v, trigger.value)
         [] trigger.condition = "exists" -> v # Null
         [] trigger.condition = "not_exists" -> v = Null

\* The configured actions of Supervisor i, by position, that have a
\* registered handler and whose condition holds on data.
ActionsHolding(i, data) ==
    LET actions == TAppSpec(sup[i].config).actions
        Holds(n) == /\ actions[n].action \in Handlers
                    /\ ConditionOnData(data, actions[n].trigger)
    IN SelectSeq([n \in 1..Len(actions) |-> n], Holds)

UpdateStartStep(h) ==
    /\ calls[h].op = "update" /\ calls[h].phase = "start"
    /\ calls[h].pc = "lock" /\ ctl_lock.holder = h
    /\ TAppConfigValid(TAppSpec(calls[h].spec))

\* C38: update_monitoring is atomic with respect to the other controller
\* calls on its key: when an update call returns and no other call is in
\* flight, the Supervisor registered under the key runs the spec of that
\* update (the update that returned last).  The code releases the lock
\* between the stop step and the start step, and the start step returns
\* without registering when it finds the key, so this is violated.
C38_AsStated ==
    [][\A h \in Callers :
         (/\ UpdateStartStep(h)
          /\ calls'[h].pc = "idle"
          /\ \A g \in Callers \ {h} : calls[g].pc = "idle")
         => /\ KeyRegistered(monitors', calls[h].key)
            /\ sup'[monitors'[MonitorOf(monitors', calls[h].key)].mon].config
                 = calls[h].spec]_vars

\* Two updates of one key overlapped: the update of h1 with one spec has
\* registered its Supervisor and returned, and the update of h2 with the
\* other spec, whose stop step ran in between and found nothing, now holds
\* the lock for its start step and finds the key registered.
C38_Witness ==
    /\ UpdateStartStep("h2") /\ calls["h2"].overlap
    /\ calls["h1"].pc = "idle" /\ calls["h1"].result = "updated"
    /\ KeyRegistered(monitors, calls["h2"].key)
    /\ sup[monitors[MonitorOf(monitors, calls["h2"].key)].mon].config = "direct"
    /\ calls["h2"].spec = "pods"

\* ---------------------------------------------------------------------
\* The dedup cache and a failed create_event (SpecEmit)
\* ---------------------------------------------------------------------

\* C39: the dedup cache records an event key as soon as the attempt passes
\* the duplicate check, before the create call is made (an attempt that goes
\* on to create_event has recorded its key with the current time); the
\* return of the create call, failed or not, leaves the cache as it is; and
\* an attempt within 5 minutes of the recorded one is suppressed and issues
\* no create call although the cluster has no event for the key.
C39_CachedBeforeCreate ==
    [][/\ \A t \in Emitters, e \in EmitEvents :
            (EmitAttempt(t, e) /\ emit'[t].pc = "create")
              => recent_events'[e.key] = now
       /\ \A t \in Emitters :
            (emit[t].pc = "create" /\ emit'[t].pc = "idle")
              => recent_events' = recent_events
       /\ \A t \in Emitters, e \in EmitEvents :
            (/\ EmitAttempt(t, e)
             /\ InWindow(cluster[e.key], now)
             /\ cluster[e.key].created = 0)
              => /\ emit'[t].pc = "idle"
                 /\ cluster'[e.key].calls = cluster[e.key].calls
                 /\ recent_events'[e.key] = cluster[e.key].first]_vars

\* C39 witness: the one create call of a key failed, the key is still in
\* the cache with the time of that attempt, and a later attempt within the
\* 5 minutes was suppressed: the cluster has no event for the key.
C39_Witness ==
    \E key \in EventKeys :
      /\ cluster[key].tries = 2 /\ cluster[key].calls = 1
      /\ cluster[key].created = 0
      /\ \A t \in Emitters : emit[t].pc = "idle"
      /\ now > cluster[key].first /\ InWindow(cluster[key], now)
      /\ recent_events[key] = cluster[key].first

(***************************************************************************)
(* SpecBuckets: the rate buckets across the life of the Supervisors        *)
(*                                                                         *)
(* Two tenant keys, each polled by the loop of its own Supervisor; the     *)
(* controller starts, stops, updates and shuts down, and its cleanup loop  *)
(* calls rate_limiter.cleanup_expired().  sup is, per key, whether a        *)
(* Supervisor runs, how many were started, and the bucket as the last      *)
(* stopped one left it (history).                                          *)
(***************************************************************************)
\* cleanup_expired(max_idle_seconds = 3600)
MaxIdleSeconds == 3600

\* The clock of SpecBuckets advances by IdleTickStep up to MaxIdleTime; at
\* most MaxStarts Supervisors are started per key.
IdleTickStep == 1800
MaxIdleTime == 5400
MaxStarts == 2

\* The loops are followed while their bucket, refilled, holds more than
\* capacity - MaxDrain tokens, so that every acquire is granted at once.
MaxDrain == 2
Drainable(b, t) ==
    b = NoBucket \/ Refilled(b, t) > TokenUnit * (b.capacity - MaxDrain)

\* The polling intervals the loops pass to acquire as timeout.
PollTimeouts == {30, 60}

\* The loop task that polls key k.
LoopOf(k) == CHOOSE h \in Callers : PairKeyOf(h) = k

Expired(b, t, max_idle_seconds) ==
    b # NoBucket /\ t - b.last_refill > max_idle_seconds

\* A variant of cleanup_expired that empties the table when it finds an
\* expired bucket.
cleanup_expired_all(bs, t, max_idle_seconds) ==
    IF \E k \in DOMAIN bs : Expired(bs[k], t, max_idle_seconds)
    THEN [k \in DOMAIN bs |-> NoBucket] ELSE bs

\* cleanup_expired: the keys with now - last_refill > max_idle_seconds are
\* deleted, under the limiter's lock.
cleanup_expired(bs, t, max_idle_seconds) ==
    [k \in DOMAIN bs |->
       IF Expired(bs[k], t, max_idle_seconds) THEN NoBucket ELSE bs[k]]

NoSupervisor == [running |-> FALSE, starts |-> 0, left |-> NoBucket]

\* start_monitoring for a key without a Supervisor: the new TAppMonitor is
\* given the controller's rate limiter; its loop has made no acquire yet.
BucketStart(k) ==
    /\ ~sup[k].running /\ sup[k].starts < MaxStarts
    /\ sup' = [sup EXCEPT ![k] = [@ EXCEPT !.running = TRUE, !.starts = @ + 1]]
    /\ acq' = [acq EXCEPT ![LoopOf(k)] = IdleAcquire]
    /\ UNCHANGED <<now, requests_per_minute, buckets, win>>
    /\ UNCHANGED <<monitors, calls, ctl_lock, cleanup_task, states, quiet>>
    /\ UNCHANGED <<emitVars, storeVars, regVars, unitVars>>

\* stop_monitoring -> TAppMonitor.stop: the loop task is cancelled (an
\* acquire suspended in its sleep ends there) and the GraphQL client is
\* closed; the rate limiter is not used.
BucketStop(k) ==
    /\ sup[k].running
    /\ sup' = [sup EXCEPT ![k] = [@ EXCEPT !.running = FALSE, !.left = buckets[k]]]
    /\ acq' = [acq EXCEPT ![LoopOf(k)] = IdleAcquire]
    /\ UNCHANGED <<now, requests_per_minute, buckets, win>>
    /\ UNCHANGED <<monitors, calls, ctl_lock, cleanup_task, states, quiet>>
    /\ UNCHANGED <<emitVars, storeVars, regVars, unitVars>>

\* update_monitoring: stop_monitoring, then start_monitoring.
BucketUpdate(k) ==
    /\ sup[k].running /\ sup[k].starts < MaxStarts
    /\ sup' = [sup EXCEPT ![k] = [@ EXCEPT !.starts = @ + 1, !.left = buckets[k]]]
    /\ acq' = [acq EXCEPT ![LoopOf(k)] = IdleAcquire]
    /\ UNCHANGED <<now, requests_per_minute, buckets, win>>
    /\ UNCHANGED <<monitors, calls, ctl_lock, cleanup_task, states, quiet>>
    /\ UNCHANGED <<emitVars, storeVars, regVars, unitVars>>

\* shutdown: the cleanup task is cancelled and every Supervisor stopped.
BucketShutdown ==
    /\ cleanup_task = "running"
    /\ cleanup_task' = "done"
    /\ sup' = [k \in DOMAIN sup |->
                 IF sup[k].running
                 THEN [sup[k] EXCEPT !.running = FALSE, !.left = buckets[k]]
                 ELSE sup[k]]
    /\ acq' = [h \in Callers |->
                 IF sup[PairKeyOf(h)].running THEN IdleAcquire ELSE acq[h]]
    /\ UNCHANGED <<now, requests_per_minute, buckets, win>>
    /\ UNCHANGED <<monitors, calls, ctl_lock, states, quiet>>
    /\ UNCHANGED <<emitVars, storeVars, regVars, unitVars>>

\* _poll_and_process: rate_limiter.acquire(namespace, name,
\* timeout = polling_interval) by the loop of a running Supervisor.
BucketPoll(h, timeout) ==
    /\ sup[PairKeyOf(h)].running
    /\ Drainable(buckets[PairKeyOf(h)], now)
    /\ Acquire(h, PairKeyOf(h), 1, timeout)

\* _cleanup_loop: rate_limiter.cleanup_expired() with the default
\* max_idle_seconds.
CleanupRun ==
    /\ cleanup_task = "running"
    /\ buckets' = cleanup_expired(buckets, now, MaxIdleSeconds)
    /\ UNCHANGED <<now, requests_per_minute, acq, win>>
    /\ UNCHANGED <<ctlVars, emitVars, storeVars, regVars, unitVars>>

\* time.time() advances.
IdleTick ==
    /\ now + IdleTickStep <= MaxIdleTime
    /\ now' = now + IdleTickStep
    /\ UNCHANGED <<rateVars, ctlVars, emitVars, storeVars, regVars, unitVars>>

InitBuckets ==
    /\ monitors = <<>>
    /\ sup = [k \in FleetKeys |-> NoSupervisor]
    /\ calls = <<>>
    /\ ctl_lock = [holder |-> "none", waiters |-> <<>>]
    /\ cleanup_task = "running"
    /\ states = <<>>
    /\ quiet = <<>>
    /\ now = 0
    /\ requests_per_minute = 6
    /\ buckets = [k \in FleetKeys |-> NoBucket]
    /\ acq = [h \in Callers |-> IdleAcquire]
    /\ win = NoWindow
    /\ emit = <<>>
    /\ recent_events = <<>>
    /\ cluster = <<>>
    /\ ret = <<>>
    /\ written = <<>>
    /\ reg = <<>>
    /\ gq = <<>>
    /\ trig = <<>>

NextBuckets ==
    \/ \E k \in FleetKeys : BucketStart(k)
    \/ \E k \in FleetKeys : BucketStop(k)
    \/ \E k \in FleetKeys : BucketUpdate(k)
    \/ BucketShutdown
    \/ \E h \in Callers, timeout \in PollTimeouts : BucketPoll(h, timeout)
    \/ CleanupRun
    \/ IdleTick

SpecBuckets == InitBuckets /\ [][NextBuckets]_vars

\* The step takes a bucket out of the table.
Leaves(k) == buckets[k] # NoBucket /\ buckets'[k] = NoBucket

\* C40: stop_monitoring, update_monitoring and shutdown (and a start) leave
\* the bucket table as it is; the first acquire of a Supervisor started
\* again for a key whose bucket is still in the table refills and consumes
\* from the bucket as its predecessor left it; a bucket leaves the table
\* only in a cleanup_expired run that finds now - last_refill greater than
\* max_idle_seconds, and that run leaves every other bucket unchanged.
C40_BucketsOutliveSupervisors ==
    [][/\ ((\E k \in FleetKeys :
               BucketStop(k) \/ BucketUpdate(k) \/ BucketStart(k))
            \/ BucketShutdown) => buckets' = buckets
       /\ \A h \in Callers :
            LET k == PairKeyOf(h)
            IN (/\ \E timeout \in PollTimeouts : BucketPoll(h, timeout)
                /\ acq[h] = IdleAcquire /\ sup[k].starts >= 2
                /\ buckets[k] # NoBucket)
               => /\ buckets[k] = sup[k].left
                  /\ buckets'[k].tokens =
                       Refilled(sup[k].left, now)
                         - (IF acq'[h].result = "true" THEN TokenUnit ELSE 0)
       /\ \A k \in FleetKeys :
            Leaves(k) => CleanupRun /\ now - buckets[k].last_refill > MaxIdleSeconds
       /\ CleanupRun =>
            \A k \in FleetKeys :
              buckets'[k] = IF Expired(buckets[k], now, MaxIdleSeconds)
                            THEN NoBucket ELSE buckets[k]]_vars

\* C40 witness: the second Supervisor of ns/a has acquired its first token
\* from the bucket the first one left with 9 of 10 tokens, at the same
\* clock reading, so that 8 are left; later a cleanup has removed the idle
\* bucket of ns/b, whose Supervisor was stopped, and kept that of ns/a.
C40_Witness ==
    /\ sup["ns/a"].starts = 2 /\ sup["ns/a"].running
    /\ sup["ns/a"].left.tokens = 9 * TokenUnit
    /\ acq["h1"].result = "true" /\ acq["h1"].taken = TokenUnit
    /\ buckets["ns/a"].tokens = 8 * TokenUnit
    /\ buckets["ns/a"].last_refill = sup["ns/a"].left.last_refill
    /\ sup["ns/b"].left # NoBucket /\ buckets["ns/b"] = NoBucket
    /\ now - buckets["ns/a"].last_refill = MaxIdleSeconds

====
